---- MODULE Spec2Model ----
(***************************************************************************)
(* Frame loop and swapchain recreation of the renderer (src/src/main.cpp). *)
(* The CPU thread of main() is a program counter walking the loop body and *)
(* updateSwapChain(); the GPU is a pair of FIFO work lists (graphics and   *)
(* present queue) drained by separate actions; the window system posts     *)
(* events and resizes or minimizes the window at any time.                 *)
(***************************************************************************)
EXTENDS Integers, Sequences, FiniteSets, TLC

\* ---------------------------------------------------------------- bounds
\* Swapchains created in one run: the first plus MaxGen-1 recreations.
MaxGen == 3
\* Swapchains created in one run of the specification with fairness.
MaxGenLive == 2
\* Calls that return an error in one run of the specification with faults.
MaxFaults == 1
\* Queue families of a physical device.
MaxFamilies == 4
MaxQueueCount == 4
\* Physical devices the instance enumerates.
MaxDevices == 3
\* Largest minImageCount and maxImageCount a surface reports.
MaxImageCount == 3
\* Surface formats a surface reports.
MaxFormats == 2
\* Memory types of the physical device.
MaxMemoryTypes == 2
\* Calls of createBuffer and of copyBuffer in one run.
MaxBufferCalls == 3

\* ------------------------------------------------------------- constants
\* The "undefined extent" sentinel; TLC integers are 32-bit signed, so the
\* largest value of the model's integers stands for 0xFFFFFFFF.
UINT32_MAX == 2147483647
\* int width = 1280; int height = 720; scaled to small numbers.
InitialWidth == 2
InitialHeight == 1
\* Capabilities.minImageCount and maxImageCount reported by the surface
\* (maxImageCount 0: no limit): the swapchain gets two images.
SurfaceMinImageCount == 1
SurfaceMaxImageCount == 0

Extent(w, h) == [width |-> w, height |-> h]
\* Client-area sizes the user may give the window.
WindowSizes == {Extent(InitialWidth, InitialHeight), Extent(3, 2)}

\* --------------------------------------------------------------- handles
\* A Vulkan handle: kind, identity of the creation call, array index.
Handle(kind, id, i) == <<kind, id, i>>
VK_NULL_HANDLE == <<"null", 0, 0>>

SwapChainKinds == {"swapchain", "imageView", "renderPass", "pipeline",
                   "framebuffer"}
PerFrameKinds == {"cmdBuffer", "uniformBuffer", "descriptorSet",
                  "imageAvailableSemaphore", "renderFinishedSemaphore",
                  "fence"}

KindOf(h) == h[1]

\* Objects main creates once, before the loop, and keeps to the end.
instance == Handle("instance", 1, 0)
\* bool enableValidationLayers: true in the debug build (BB_DEBUG)
enableValidationLayers == TRUE
messenger ==
  IF enableValidationLayers THEN Handle("messenger", 1, 0) ELSE VK_NULL_HANDLE
surface == Handle("surface", 1, 0)
device == Handle("device", 1, 0)
testVertShaderModule == Handle("shaderModule", 1, 1)
testFragShaderModule == Handle("shaderModule", 1, 2)
descriptorSetLayout == Handle("descriptorSetLayout", 1, 0)
pipelineLayout == Handle("pipelineLayout", 1, 0)
graphicsCmdPool == Handle("commandPool", 1, 1)
transferCmdPool == Handle("commandPool", 1, 2)
vertexBuffer == Handle("vertexBuffer", 1, 0)
vertexStagingBuffer == Handle("vertexStagingBuffer", 1, 0)
indexBuffer == Handle("indexBuffer", 1, 0)
indexStagingBuffer == Handle("indexStagingBuffer", 1, 0)
descriptorPool == Handle("descriptorPool", 1, 0)

\* Buffer {Buffer, Memory}: the device memory createBuffer allocates for a
\* buffer and destroyBuffer frees with it.
MemoryOf(b) ==
  Handle(CASE KindOf(b) = "uniformBuffer" -> "uniformBufferMemory"
           [] KindOf(b) = "vertexBuffer" -> "vertexBufferMemory"
           [] KindOf(b) = "vertexStagingBuffer" -> "vertexStagingBufferMemory"
           [] KindOf(b) = "indexBuffer" -> "indexBufferMemory"
           [] OTHER -> "indexStagingBufferMemory",
         b[2], b[3])
\* destroyBuffer: vkDestroyBuffer and vkFreeMemory
destroyBuffer(b) == {b, MemoryOf(b)}

StartupObjects ==
  ({instance, messenger, surface, device, testVertShaderModule,
    testFragShaderModule, descriptorSetLayout, pipelineLayout,
    graphicsCmdPool, transferCmdPool, descriptorPool}
     \cup destroyBuffer(vertexBuffer) \cup destroyBuffer(vertexStagingBuffer)
     \cup destroyBuffer(indexBuffer) \cup destroyBuffer(indexStagingBuffer))
    \ {VK_NULL_HANDLE}

SeqToSet(s) == {s[i] : i \in 1..Len(s)}

Clamp(v, lo, hi) == IF v < lo THEN lo ELSE IF hi < v THEN hi ELSE v

VARIABLES
  pc,                      \* position of the CPU thread in main / updateSwapChain
  retpc,                   \* where updateSwapChain returns to
  running,                 \* bool running
  currentFrame,            \* uint32_t currentFrame
  imageIndex,              \* uint32_t imageIndex (-1: not written yet)
  acquireNextImageResult,  \* VkResult of the last vkAcquireNextImageKHR
  queuePresentResult,      \* VkResult of the last vkQueuePresentKHR
  numSwapChainImages,      \* uint32_t numSwapChainImages
  swapChainSupportDetails, \* SwapChainSupportDetails.Capabilities
  swapChain,               \* SwapChain {Handle, Extent}
  swapChainImageViews,     \* std::vector<VkImageView>
  swapChainFramebuffers,   \* std::vector<VkFramebuffer>
  renderPass,              \* VkRenderPass
  renderPassCreateInfo,    \* VkRenderPassCreateInfo: the colour attachment
  graphicsPipeline,        \* VkPipeline
  viewport,                \* VkViewport width/height
  scissor,                 \* VkRect2D scissor extent
  frameRes,                \* the per-frame vectors of handles
  cmdRecorded,             \* what each graphics command buffer holds
  updWidth, updHeight,     \* int width, height of updateSwapChain
  \* device selection and creation
  physicalDevices,         \* what each enumerated physical device reports
  physicalDevice,          \* VkPhysicalDevice chosen, or VK_NULL_HANDLE
  supportFormats,          \* SwapChainSupportDetails.Formats
  supportPresentModes,     \* SwapChainSupportDetails.PresentModes
  swapChainCreateInfo,     \* VkSwapchainCreateInfoKHR of the last creation
  queueFamilyProperties,   \* std::vector<VkQueueFamilyProperties> + present support
  queueFamilyIndices,      \* QueueFamilyIndices
  queueMap,                \* family -> number of queues to request
  queueCreateInfos,        \* std::vector<VkDeviceQueueCreateInfo>
  obtainedQueueCounters,   \* family -> queues fetched so far
  queues,                  \* role -> (family, index) given to vkGetDeviceQueue
  \* buffers
  memProperties,           \* VkPhysicalDeviceMemoryProperties.memoryTypes
  buffers,                 \* the Buffer structs of main, by name
  transferQueue,           \* command buffers submitted to transferQueue
  bufferCall,              \* the buffer helper running or last run, its
                           \* arguments and locals
  \* device and presentation engine
  live,                    \* handles created and not destroyed
  created,                 \* handles ever created
  gen,                     \* number of swapchains created so far
  createdFormat,           \* format the live render pass and the live image
                           \* views were created with
  nextImage,               \* image a rotating presentation engine gives next
  fenceSignaled,           \* state of each fence
  semSignaled,             \* state of each semaphore
  graphicsQueue,           \* submitted command buffers not yet executed
  presentQueue,            \* queued presents not yet executed
  imageAcquired,           \* images of the current swapchain held by the app
  acquirePending,          \* semaphore signals of acquires not yet performed
  \* window system
  window,                  \* [minimized, size]
  \* observation
  log,                     \* calls made in the current loop iteration
  frameOps,                \* frame calls of the iteration with their arguments
  failed,                  \* calls that returned an error so far
  badDestroy,              \* handles destroyed while not live
  destroyedInUse,          \* handles destroyed while pending work used them
  hazardWrites,            \* uniform writes made while the GPU could read
  sinceSubmit,             \* recreations completed since the last submit
  staleBudget              \* swapchains the run may create (a bound of the run)

progVars == <<pc, retpc, running, currentFrame, imageIndex,
              acquireNextImageResult, queuePresentResult, numSwapChainImages,
              swapChainSupportDetails, swapChain, swapChainImageViews,
              swapChainFramebuffers, renderPass, renderPassCreateInfo,
              graphicsPipeline, viewport,
              scissor, frameRes, cmdRecorded, updWidth, updHeight>>
devVars == <<live, created, gen, createdFormat, nextImage, fenceSignaled, semSignaled, graphicsQueue,
             presentQueue, imageAcquired, acquirePending>>
winVars == <<window>>
obsVars == <<log, frameOps, failed, badDestroy, destroyedInUse, hazardWrites,
             sinceSubmit, staleBudget>>
startVars == <<queueFamilyProperties, queueFamilyIndices, queueMap,
               queueCreateInfos, obtainedQueueCounters, queues,
               physicalDevices, physicalDevice, supportFormats,
               supportPresentModes, swapChainCreateInfo>>
bufVars == <<memProperties, buffers, transferQueue, bufferCall>>
vars == <<progVars, startVars, bufVars, devVars, winVars, obsVars>>


\* ------------------------------------------------- swapchain negotiation
\* SwapChainSupportDetails::chooseExtent
chooseExtent_Current(caps, w, h) == caps.currentExtent
chooseExtent(caps, w, h) ==
  IF caps.currentExtent.width # UINT32_MAX
  THEN caps.currentExtent
  ELSE Extent(Clamp(w, caps.minImageExtent.width, caps.maxImageExtent.width),
              Clamp(h, caps.minImageExtent.height, caps.maxImageExtent.height))

\* createSwapChain: swapChainCreateInfo.minImageCount
chooseImageCount_Unclamped(caps) == caps.minImageCount + 1
chooseImageCount(caps) ==
  IF caps.maxImageCount > 0 /\ caps.minImageCount + 1 > caps.maxImageCount
  THEN caps.maxImageCount
  ELSE caps.minImageCount + 1

\* A VkSurfaceFormatKHR.
SurfaceFormat(format, colorSpace) ==
  [format |-> format, colorSpace |-> colorSpace]

\* SwapChainSupportDetails::chooseSurfaceFormat, from entry i (1-based) on.
RECURSIVE chooseSurfaceFormatFrom(_, _)
chooseSurfaceFormatFrom(Formats, i) ==
  IF i > Len(Formats) THEN Formats[1]
  ELSE IF /\ Formats[i].format = "VK_FORMAT_R8G8B8A8_SRGB"
          /\ Formats[i].colorSpace = "VK_COLOR_SPACE_SRGB_NONLINEAR_KHR"
       THEN Formats[i]
       ELSE chooseSurfaceFormatFrom(Formats, i + 1)
chooseSurfaceFormat_First(Formats) == Formats[1]
chooseSurfaceFormat(Formats) == chooseSurfaceFormatFrom(Formats, 1)

\* SwapChainSupportDetails::choosePresentMode, from entry i (1-based) on.
RECURSIVE choosePresentModeFrom(_, _)
choosePresentModeFrom(PresentModes, i) ==
  IF i > Len(PresentModes) THEN "VK_PRESENT_MODE_FIFO_KHR"
  ELSE IF PresentModes[i] = "VK_PRESENT_MODE_MAILBOX_KHR"
       THEN PresentModes[i]
       ELSE choosePresentModeFrom(PresentModes, i + 1)
choosePresentMode_First(PresentModes) ==
  IF PresentModes = <<>> THEN "VK_PRESENT_MODE_FIFO_KHR" ELSE PresentModes[1]
choosePresentMode(PresentModes) == choosePresentModeFrom(PresentModes, 1)

\* createSwapChain: the fields of swapChainCreateInfo that are negotiated.
SwapChainCreateInfo(caps, Formats, PresentModes, w, h) ==
  LET surfaceFormat == chooseSurfaceFormat(Formats) IN
  [minImageCount   |-> chooseImageCount(caps),
   imageFormat     |-> surfaceFormat.format,
   imageColorSpace |-> surfaceFormat.colorSpace,
   imageExtent     |-> chooseExtent(caps, w, h),
   presentMode     |-> choosePresentMode(PresentModes)]

\* createSwapChain: the SwapChain it returns, its handle being a new one
createSwapChain(caps, w, h, id) ==
  [Handle |-> Handle("swapchain", id, 0), Extent |-> chooseExtent(caps, w, h)]

\* vkGetPhysicalDeviceSurfaceCapabilitiesKHR: what the surface reports for
\* the window as it is now.  The program is built for Win32 (its resource
\* paths use backslashes), where the surface reports currentExtent, equal to
\* the client area: zero by zero while the window is minimized.
QuerySurfaceCapabilities(win, minCount) ==
  LET cur == IF win.minimized THEN Extent(0, 0) ELSE win.size IN
  [currentExtent  |-> cur,
   minImageExtent |-> cur,
   maxImageExtent |-> cur,
   minImageCount  |-> minCount,
   maxImageCount  |-> SurfaceMaxImageCount]

\* ------------------------------------------------------ command recording
Unrecorded ==
  [recorded |-> FALSE, renderPass |-> VK_NULL_HANDLE,
   framebuffer |-> VK_NULL_HANDLE, pipeline |-> VK_NULL_HANDLE,
   descriptorSet |-> VK_NULL_HANDLE]

\* (variant: nothing is recorded)
recordCommand_Skip(n, cmds, rp, fbs, pipe, dsets) == cmds

\* recordCommand: command buffer i gets render pass, framebuffer i, pipeline
\* and descriptor set i, for every i below _numSwapChainImages.
recordCommand(n, cmds, rp, fbs, pipe, dsets) ==
  [i \in 1..Len(cmds) |->
     IF i <= n /\ i <= Len(fbs) /\ i <= Len(dsets)
     THEN [recorded |-> TRUE, renderPass |-> rp, framebuffer |-> fbs[i],
           pipeline |-> pipe, descriptorSet |-> dsets[i]]
     ELSE cmds[i]]

\* vkResetCommandPool: every command buffer of the pool returns to initial.
ResetCommandPool(cmds) == [i \in 1..Len(cmds) |-> Unrecorded]

\* --------------------------------------------------------- object tables
NewVector(kind, id, n) == [i \in 1..n |-> Handle(kind, id, i)]

\* The per-frame vectors main creates, each of numSwapChainImages elements.
NewFrameResources(n) ==
  [graphicsCmdBuffers       |-> NewVector("cmdBuffer", 1, n),
   uniformBuffers           |-> NewVector("uniformBuffer", 1, n),
   descriptorSets           |-> NewVector("descriptorSet", 1, n),
   imageAvailableSemaphores |-> NewVector("imageAvailableSemaphore", 1, n),
   renderFinishedSemaphores |-> NewVector("renderFinishedSemaphore", 1, n),
   imageAvailableFences     |-> NewVector("fence", 1, n)]

\* vkCreateFence with VK_FENCE_CREATE_SIGNALED_BIT, once per frame slot.
NewFences_Unsignaled(n) == [i \in 1..n |-> FALSE]
NewFences(n) == [i \in 1..n |-> TRUE]
\* vkCreateSemaphore: a new semaphore is unsignaled.
NewSemaphores(n) ==
  [imageAvailable |-> [i \in 1..n |-> FALSE],
   renderFinished |-> [i \in 1..n |-> FALSE]]

FrameHandles(fr) ==
  SeqToSet(fr.graphicsCmdBuffers) \cup SeqToSet(fr.uniformBuffers)
    \cup SeqToSet(fr.descriptorSets) \cup SeqToSet(fr.imageAvailableSemaphores)
    \cup SeqToSet(fr.renderFinishedSemaphores)
    \cup SeqToSet(fr.imageAvailableFences)

\* Objects a framebuffer keeps alive: its image view and, through the image
\* of that view, the swapchain (all three are created in the same cycle).
\* vkUpdateDescriptorSets: descriptor set i refers to uniformBuffers[i].
UniformBufferOf(dset) ==
  IF KindOf(dset) = "descriptorSet"
  THEN Handle("uniformBuffer", dset[2], dset[3])
  ELSE VK_NULL_HANDLE

FramebufferDeps(fb) ==
  IF KindOf(fb) = "framebuffer"
  THEN {Handle("imageView", fb[2], fb[3]), Handle("swapchain", fb[2], 0)}
  ELSE {}

\* Handles that work still pending on the GPU refers to.
DrawRefs(d) ==
  {d.cmd.renderPass, d.cmd.framebuffer, d.cmd.pipeline, d.cmd.descriptorSet,
   UniformBufferOf(d.cmd.descriptorSet), d.cmdBuffer, d.fence, d.wait,
   d.signal}
    \cup FramebufferDeps(d.cmd.framebuffer)
InUse ==
  UNION {DrawRefs(graphicsQueue[k]) : k \in 1..Len(graphicsQueue)}
    \cup {presentQueue[k].swapchain : k \in 1..Len(presentQueue)}
    \cup {presentQueue[k].wait : k \in 1..Len(presentQueue)}
    \cup {transferQueue[k].cmdBuffer : k \in 1..Len(transferQueue)}
    \cup UNION {UNION {{transferQueue[k].commands[c].src,
                        transferQueue[k].commands[c].dst} :
                         c \in 1..Len(transferQueue[k].commands)} :
                  k \in 1..Len(transferQueue)}

\* ---------------------------------------------------------- queue families
\* What the program reads of one queue family: the capability bits of
\* queueFlags and the answer of vkGetPhysicalDeviceSurfaceSupportKHR.
Family(flags, present) == [queueFlags |-> flags, supportPresent |-> present]
FamilyKinds ==
  {Family({"GRAPHICS", "TRANSFER", "COMPUTE"}, TRUE),
   Family({"GRAPHICS", "TRANSFER", "COMPUTE"}, FALSE),
   Family({"GRAPHICS"}, TRUE),
   Family({"GRAPHICS"}, FALSE),
   Family({"TRANSFER"}, FALSE),
   Family({"COMPUTE"}, FALSE),
   Family({"TRANSFER", "COMPUTE"}, FALSE),
   Family({"TRANSFER"}, TRUE),
   Family({"COMPUTE"}, TRUE),
   Family({}, TRUE)}
\* The families of the device the main loop runs on.
SampleFamilies ==
  <<Family({"GRAPHICS", "TRANSFER", "COMPUTE"}, TRUE),
    Family({"TRANSFER"}, FALSE),
    Family({"TRANSFER", "COMPUTE"}, FALSE)>>

\* struct QueueFamilyIndices: four std::optional<uint32_t>.
nullopt == -1
has_value(o) == o # nullopt
NoIndices ==
  [Graphics |-> nullopt, Transfer0 |-> nullopt, Present |-> nullopt,
   Compute |-> nullopt]
isCompleted(q) ==
  /\ has_value(q.Graphics) /\ has_value(q.Transfer0)
  /\ has_value(q.Present) /\ has_value(q.Compute)

\* Body of the first loop of getQueueFamily for family i (0-based).
Pass1Family_Independent(props, result, i) ==
  LET f == props[i + 1] IN
  [Graphics  |-> IF "GRAPHICS" \in f.queueFlags /\ ~has_value(result.Graphics)
                 THEN i ELSE result.Graphics,
   Transfer0 |-> IF "TRANSFER" \in f.queueFlags /\ ~has_value(result.Transfer0)
                 THEN i ELSE result.Transfer0,
   Compute   |-> IF "COMPUTE" \in f.queueFlags /\ ~has_value(result.Compute)
                 THEN i ELSE result.Compute,
   Present   |-> IF ~has_value(result.Present) /\ f.supportPresent
                 THEN i ELSE result.Present]
Pass1Family(props, result, i) ==
  LET f == props[i + 1] IN
  IF "GRAPHICS" \in f.queueFlags /\ ~has_value(result.Graphics)
  THEN [result EXCEPT !.Graphics = i]
  ELSE IF "TRANSFER" \in f.queueFlags /\ ~has_value(result.Transfer0)
  THEN [result EXCEPT !.Transfer0 = i]
  ELSE IF "COMPUTE" \in f.queueFlags /\ ~has_value(result.Compute)
  THEN [result EXCEPT !.Compute = i]
  ELSE IF ~has_value(result.Present)
  THEN (IF f.supportPresent THEN [result EXCEPT !.Present = i] ELSE result)
  ELSE result

\* The first loop from family i on, with its break on completion.
RECURSIVE Pass1(_, _, _)
Pass1(props, result, i) ==
  IF i >= Len(props) THEN result
  ELSE LET r == Pass1Family(props, result, i) IN
       IF isCompleted(r) THEN r ELSE Pass1(props, r, i + 1)

\* Body of the second loop for family i: four independent tests.
Pass2Family(props, result, i) ==
  LET f == props[i + 1] IN
  [Graphics  |-> IF "GRAPHICS" \in f.queueFlags /\ ~has_value(result.Graphics)
                 THEN i ELSE result.Graphics,
   Transfer0 |-> IF "TRANSFER" \in f.queueFlags /\ ~has_value(result.Transfer0)
                 THEN i ELSE result.Transfer0,
   Compute   |-> IF "COMPUTE" \in f.queueFlags /\ ~has_value(result.Compute)
                 THEN i ELSE result.Compute,
   Present   |-> IF ~has_value(result.Present) /\ f.supportPresent
                 THEN i ELSE result.Present]

\* The second loop from family i on; it runs over every family.
RECURSIVE Pass2Loop(_, _, _)
Pass2Loop(props, result, i) ==
  IF i >= Len(props) THEN result
  ELSE Pass2Loop(props, Pass2Family(props, result, i), i + 1)

\* if (!result.isCompleted()) { second loop }
Pass2_Skipped(props, result) == result
Pass2(props, result) ==
  IF ~isCompleted(result) THEN Pass2Loop(props, result, 0) ELSE result

getQueueFamily(props) == Pass2(props, Pass1(props, NoIndices, 0))

\* --------------------------------------------------------- device queues
\* The lambda incrementNumQueues on queueMap.
incrementNumQueues_Once(map, family) ==
  IF family \notin DOMAIN map THEN map @@ (family :> 1) ELSE map
incrementNumQueues(map, family) ==
  IF family \notin DOMAIN map THEN map @@ (family :> 1)
  ELSE [map EXCEPT ![family] = @ + 1]

\* The four calls of incrementNumQueues, in the order of the source.
CountQueues(q) ==
  LET m0 == [f \in {} |-> 0]
      m1 == incrementNumQueues(m0, q.Graphics)
      m2 == incrementNumQueues(m1, q.Transfer0)
      m3 == incrementNumQueues(m2, q.Present)
  IN incrementNumQueues(m3, q.Compute)

\* for (auto [queueFamilyIndex, numQueues] : queueMap): one request per
\* entry of the map (taken here in ascending order of the family).
RECURSIVE QueueCreateInfos(_, _)
QueueCreateInfos(map, keys) ==
  IF keys = {} THEN <<>>
  ELSE LET k == CHOOSE x \in keys : \A y \in keys : x <= y IN
       <<[queueFamilyIndex |-> k, queueCount |-> map[k]]>>
         \o QueueCreateInfos(map, keys \ {k})

\* The order in which main fetches the four queues.
FetchOrder == <<"Graphics", "Transfer0", "Present", "Compute">>

\* vkGetDeviceQueue(device, family, obtainedQueueCounters[family]++, &queue)
\* for one role, on the pair st = [counters, queues].
GetDeviceQueue(q, st, role) ==
  [counters |-> [st.counters EXCEPT ![q[role]] = @ + 1],
   queues   |-> st.queues @@ (role :> <<q[role], st.counters[q[role]]>>)]

\* The state after the first n fetches.
RECURSIVE GetDeviceQueues(_, _, _)
GetDeviceQueues(q, map, n) ==
  IF n = 0
  THEN [counters |-> [f \in DOMAIN map |-> 0], queues |-> [r \in {} |-> 0]]
  ELSE GetDeviceQueue(q, GetDeviceQueues(q, map, n - 1), FetchOrder[n])

\* ---------------------------------------------------------------- buffers
\* Property flags of a memory type, and the memory types of a device.
MemoryKinds ==
  {{"DEVICE_LOCAL"}, {"HOST_VISIBLE"}, {"HOST_VISIBLE", "HOST_COHERENT"},
   {"DEVICE_LOCAL", "HOST_VISIBLE", "HOST_COHERENT"}}
MemoryTypeLists == UNION {[1..n -> MemoryKinds] : n \in 1..MaxMemoryTypes}
\* The memory types of the device the main loop runs on.
SampleMemory == <<{"DEVICE_LOCAL"}, {"HOST_VISIBLE", "HOST_COHERENT"}>>
\* The property flags main asks createBuffer for.
RequestedProperties == {{"DEVICE_LOCAL"}, {"HOST_VISIBLE", "HOST_COHERENT"}}

\* findMemoryType from memory type i (0-based) on; _typeFilter is the set
\* of the indices whose bit is set.  NoMemoryType stands for reaching
\* BB_ASSERT(false).
NoMemoryType == -1
RECURSIVE findMemoryTypeFrom(_, _, _, _)
findMemoryTypeFrom(memoryTypes, typeFilter, properties, i) ==
  IF i >= Len(memoryTypes) THEN NoMemoryType
  ELSE IF i \in typeFilter /\ properties \subseteq memoryTypes[i + 1]
       THEN i
       ELSE findMemoryTypeFrom(memoryTypes, typeFilter, properties, i + 1)
findMemoryType_AnyAllowed(memoryTypes, typeFilter, properties) ==
  findMemoryTypeFrom(memoryTypes, typeFilter, {}, 0)
findMemoryType(memoryTypes, typeFilter, properties) ==
  findMemoryTypeFrom(memoryTypes, typeFilter, properties, 0)

\* Buffer result = {};
NullBuffer == [Buffer |-> VK_NULL_HANDLE, Memory |-> VK_NULL_HANDLE]
\* The Buffer createBuffer returns for the struct `name`, its handles new.
NewBuffer(name, id) ==
  [Buffer |-> Handle(name, id, 0), Memory |-> MemoryOf(Handle(name, id, 0))]
\* destroyBuffer: the handles it gives to vkDestroyBuffer and vkFreeMemory
\* (a call with VK_NULL_HANDLE does nothing), and the struct it leaves.
ReleasedBy(buf) == {buf.Buffer, buf.Memory} \ {VK_NULL_HANDLE}
AfterDestroyBuffer_Kept(buf) == buf
AfterDestroyBuffer(buf) ==
  [buf EXCEPT !.Buffer = VK_NULL_HANDLE, !.Memory = VK_NULL_HANDLE]
\* The buffers main has when it enters the loop.
MainBuffers ==
  [name \in {"vertexBuffer", "vertexStagingBuffer", "indexBuffer",
             "indexStagingBuffer"} |-> NewBuffer(name, 1)]
NoBufferCall == [op |-> "none"]

\* What a surface may report, and the sizes createSwapChain may be asked
\* for.  A surface that reports a current extent reports it as the only
\* extent; maxImageCount is 0 (no limit) or at least minImageCount.
UndefinedExtent == Extent(UINT32_MAX, UINT32_MAX)
CapabilitiesSet ==
  {[currentExtent  |-> UndefinedExtent,
    minImageExtent |-> r[1],
    maxImageExtent |-> r[2],
    minImageCount  |-> mn,
    maxImageCount  |-> mx] :
     r \in {<<Extent(1, 2), Extent(3, 3)>>, <<Extent(2, 2), Extent(2, 2)>>},
     mn \in 1..MaxImageCount, mx \in 0..MaxImageCount}
  \cup
  {[currentExtent  |-> cur,
    minImageExtent |-> cur,
    maxImageExtent |-> cur,
    minImageCount  |-> mn,
    maxImageCount  |-> mx] :
     cur \in {Extent(2, 1), Extent(0, 0)},
     mn \in 1..MaxImageCount, mx \in 0..MaxImageCount}
SurfaceCapabilities ==
  {c \in CapabilitiesSet : c.maxImageCount = 0
                             \/ c.maxImageCount >= c.minImageCount}
RequestedWidths == {0, 2, 5}
RequestedHeights == {1, 4}
FormatKinds ==
  {SurfaceFormat("VK_FORMAT_R8G8B8A8_SRGB",
                 "VK_COLOR_SPACE_SRGB_NONLINEAR_KHR"),
   SurfaceFormat("VK_FORMAT_B8G8R8A8_UNORM",
                 "VK_COLOR_SPACE_SRGB_NONLINEAR_KHR"),
   SurfaceFormat("VK_FORMAT_R8G8B8A8_SRGB",
                 "VK_COLOR_SPACE_HDR10_ST2084_EXT")}
FormatLists == UNION {[1..n -> FormatKinds] : n \in 1..MaxFormats}
PresentModeKinds ==
  {"VK_PRESENT_MODE_IMMEDIATE_KHR", "VK_PRESENT_MODE_MAILBOX_KHR",
   "VK_PRESENT_MODE_FIFO_KHR"}
\* Lists of distinct present modes, the empty one included.
PresentModeLists ==
  {s \in UNION {[1..n -> PresentModeKinds] :
                  n \in 0..Cardinality(PresentModeKinds)} :
     \A i, j \in 1..Len(s) : i # j => s[i] # s[j]}

\* ------------------------------------------------------ device selection
\* What checkPhysicalDevice reads of one physical device.
RequiredFeatures ==
  {"geometryShader", "tessellationShader", "fillModeNonSolid", "depthClamp"}
deviceExtensions == {"VK_KHR_swapchain"}
SRGB == SurfaceFormat("VK_FORMAT_R8G8B8A8_SRGB",
                      "VK_COLOR_SPACE_SRGB_NONLINEAR_KHR")
UNORM == SurfaceFormat("VK_FORMAT_B8G8R8A8_UNORM",
                       "VK_COLOR_SPACE_SRGB_NONLINEAR_KHR")
\* The device the main loop runs on.
SampleDevice ==
  [deviceType   |-> "VK_PHYSICAL_DEVICE_TYPE_DISCRETE_GPU",
   features     |-> RequiredFeatures,
   extensions   |-> deviceExtensions,
   Formats      |-> <<UNORM, SRGB>>,
   PresentModes |-> <<"VK_PRESENT_MODE_FIFO_KHR",
                      "VK_PRESENT_MODE_MAILBOX_KHR">>,
   families     |-> SampleFamilies]
\* Devices an instance may enumerate: two that pass every test and differ
\* in what they report, and one failing each test of checkPhysicalDevice.
DeviceKinds ==
  {SampleDevice,
   [SampleDevice EXCEPT
      !.deviceType = "VK_PHYSICAL_DEVICE_TYPE_INTEGRATED_GPU",
      !.Formats = <<SRGB>>,
      !.PresentModes = <<"VK_PRESENT_MODE_FIFO_KHR">>,
      !.families = <<Family({"GRAPHICS", "TRANSFER", "COMPUTE"}, TRUE)>>],
   [SampleDevice EXCEPT !.deviceType = "VK_PHYSICAL_DEVICE_TYPE_CPU"],
   [SampleDevice EXCEPT !.features = RequiredFeatures \ {"depthClamp"}],
   [SampleDevice EXCEPT !.extensions = {}],
   [SampleDevice EXCEPT !.Formats = <<>>],
   [SampleDevice EXCEPT !.PresentModes = <<>>],
   [SampleDevice EXCEPT
      !.families = <<Family({"GRAPHICS", "TRANSFER", "COMPUTE"}, FALSE)>>]}

\* checkPhysicalDevice: its boolean result ...
isQueueComplete_Ignored(d) == TRUE
isQueueComplete(d) == isCompleted(getQueueFamily(d.families))
checkPhysicalDevice(d) ==
  LET areAllExtensionsSupported == deviceExtensions \subseteq d.extensions
      isSwapChainAdequate == Len(d.Formats) > 0 /\ Len(d.PresentModes) > 0
      isProperType ==
        d.deviceType \in {"VK_PHYSICAL_DEVICE_TYPE_DISCRETE_GPU",
                          "VK_PHYSICAL_DEVICE_TYPE_INTEGRATED_GPU"}
      isFeatureComplete == RequiredFeatures \subseteq d.features
  IN /\ areAllExtensionsSupported /\ isSwapChainAdequate /\ isProperType
     /\ isFeatureComplete /\ isQueueComplete(d)
\* ... and what it stores through its out-parameters, whatever the result.
CheckedDetails(d) ==
  [queueFamilyIndices |-> getQueueFamily(d.families),
   Formats            |-> d.Formats,
   PresentModes       |-> d.PresentModes]

\* for (currentPhysicalDevice : physicalDevices): devices i.. of the list,
\* `out` being what the out-parameters hold so far.  The result is the
\* device taken (VK_NULL_HANDLE for none) and the out-parameters.
RECURSIVE SelectPhysicalDevice(_, _, _)
SelectPhysicalDevice(devs, i, out) ==
  IF i > Len(devs)
  THEN [physicalDevice |-> VK_NULL_HANDLE, out |-> out]
  ELSE IF checkPhysicalDevice(devs[i])
       THEN [physicalDevice |-> Handle("physicalDevice", 1, i),
             out |-> CheckedDetails(devs[i])]
       ELSE SelectPhysicalDevice(devs, i + 1, CheckedDetails(devs[i]))
NoDetails ==
  [queueFamilyIndices |-> NoIndices, Formats |-> <<>>, PresentModes |-> <<>>]

\* ------------------------------------------------------------------ Init
\* (variant: the attachment format is a fixed one)
ColorAttachmentFormat_Fixed(info) == "VK_FORMAT_B8G8R8A8_UNORM"
\* colorAttachment.format = swapChain.ImageFormat, the image format of the
\* create info the startup swapchain was made from.
ColorAttachmentFormat(info) == info.imageFormat
NoFormats ==
  [renderPass |-> "VK_FORMAT_UNDEFINED", imageViews |-> "VK_FORMAT_UNDEFINED"]

\* main() with the swapchain, its views and framebuffers, the pipeline and
\* the vertex and index buffers built; frames is the length of the per-frame
\* vectors: 0 before main creates them, numSwapChainImages after.
StartedOn(Formats, caps, frames, at) ==
    LET win  == [minimized |-> FALSE,
                 size |-> Extent(InitialWidth, InitialHeight)]
        sc   == createSwapChain(caps, InitialWidth, InitialHeight, 1)
        n    == chooseImageCount(caps)
        info == SwapChainCreateInfo(caps, Formats, SampleDevice.PresentModes,
                                    InitialWidth, InitialHeight)
        views == NewVector("imageView", 1, n)
        fbs   == NewVector("framebuffer", 1, n)
        rp    == Handle("renderPass", 1, 0)
        pipe  == Handle("pipeline", 1, 0)
        fr    == NewFrameResources(frames)
        qfi   == getQueueFamily(SampleFamilies)
        qm    == CountQueues(qfi)
        got   == GetDeviceQueues(qfi, qm, Len(FetchOrder))
    IN
    /\ memProperties = SampleMemory
    /\ buffers = MainBuffers
    /\ transferQueue = <<>>
    /\ bufferCall = NoBufferCall
    /\ physicalDevices = <<SampleDevice>>
    /\ physicalDevice = Handle("physicalDevice", 1, 1)
    /\ supportFormats = Formats
    /\ supportPresentModes = SampleDevice.PresentModes
    /\ swapChainCreateInfo =
         SwapChainCreateInfo(caps, Formats,
                             SampleDevice.PresentModes, InitialWidth,
                             InitialHeight)
    /\ queueFamilyProperties = SampleFamilies
    /\ queueFamilyIndices = qfi
    /\ queueMap = qm
    /\ queueCreateInfos = QueueCreateInfos(qm, DOMAIN qm)
    /\ obtainedQueueCounters = got.counters
    /\ queues = got.queues
    /\ pc = at
    /\ retpc = "loop"
    /\ running = TRUE
    /\ currentFrame = 0
    /\ imageIndex = -1
    /\ acquireNextImageResult = "NONE"
    /\ queuePresentResult = "NONE"
    /\ numSwapChainImages = n
    /\ swapChainSupportDetails = caps
    /\ swapChain = sc
    /\ swapChainImageViews = views
    /\ swapChainFramebuffers = fbs
    /\ renderPass = rp
    /\ graphicsPipeline = pipe
    /\ viewport = sc.Extent
    /\ scissor = sc.Extent
    /\ frameRes = fr
    /\ cmdRecorded = recordCommand(n, ResetCommandPool(fr.graphicsCmdBuffers),
                                   rp, fbs, pipe, fr.descriptorSets)
    /\ updWidth = 0
    /\ updHeight = 0
    /\ live = {sc.Handle, rp, pipe} \cup SeqToSet(views) \cup SeqToSet(fbs)
                \cup FrameHandles(fr)
                \cup {MemoryOf(fr.uniformBuffers[i]) : i \in 1..frames}
                \cup (IF frames = 0 THEN StartupObjects \ {descriptorPool}
                                    ELSE StartupObjects)
    /\ created = live
    /\ gen = 1
    /\ renderPassCreateInfo = [format |-> ColorAttachmentFormat(info)]
    /\ createdFormat = [renderPass |-> ColorAttachmentFormat(info),
                        imageViews |-> info.imageFormat]
    /\ nextImage = 0
    /\ fenceSignaled = NewFences(frames)
    /\ semSignaled = NewSemaphores(frames)
    /\ graphicsQueue = <<>>
    /\ presentQueue = <<>>
    /\ imageAcquired = {}
    /\ acquirePending = {}
    /\ window = win
    /\ log = <<>>
    /\ frameOps = <<>>
    /\ failed = {}
    /\ badDestroy = {}
    /\ destroyedInUse = {}
    /\ hazardWrites = {}
    /\ sinceSubmit = 0

\* The same on the device the main loop runs on.
StartedWith(caps, frames, at) ==
  StartedOn(SampleDevice.Formats, caps, frames, at)

\* main() entering the frame loop: the surface reports the window's size
\* and SurfaceMinImageCount images, every per-frame object exists.
Started ==
  LET caps == QuerySurfaceCapabilities(
                [minimized |-> FALSE,
                 size |-> Extent(InitialWidth, InitialHeight)],
                SurfaceMinImageCount)
  IN StartedWith(caps, chooseImageCount(caps), "loop")

\* The state main() is in before it has looked at a physical device: no
\* Vulkan object of the frame loop exists yet.
NothingCreated ==
  /\ retpc = "loop"
  /\ running = TRUE
  /\ currentFrame = 0
  /\ imageIndex = -1
  /\ acquireNextImageResult = "NONE"
  /\ queuePresentResult = "NONE"
  /\ numSwapChainImages = 0
  /\ swapChain = [Handle |-> VK_NULL_HANDLE, Extent |-> Extent(0, 0)]
  /\ swapChainImageViews = <<>>
  /\ swapChainFramebuffers = <<>>
  /\ renderPass = VK_NULL_HANDLE
  /\ graphicsPipeline = VK_NULL_HANDLE
  /\ viewport = Extent(0, 0)
  /\ scissor = Extent(0, 0)
  /\ frameRes = NewFrameResources(0)
  /\ cmdRecorded = <<>>
  /\ live = {instance, messenger, surface}
  /\ created = live
  /\ gen = 0
  /\ renderPassCreateInfo = [format |-> "VK_FORMAT_UNDEFINED"]
  /\ createdFormat = NoFormats
  /\ nextImage = 0
  /\ fenceSignaled = <<>>
  /\ semSignaled = [imageAvailable |-> <<>>, renderFinished |-> <<>>]
  /\ graphicsQueue = <<>>
  /\ presentQueue = <<>>
  /\ imageAcquired = {}
  /\ acquirePending = {}
  /\ window = [minimized |-> FALSE,
               size |-> Extent(InitialWidth, InitialHeight)]
  /\ log = <<>>
  /\ frameOps = <<>>
  /\ failed = {}
  /\ badDestroy = {}
  /\ destroyedInUse = {}
  /\ hazardWrites = {}
  /\ sinceSubmit = 0
  /\ staleBudget = 0
\* The surface not yet asked for its capabilities by the loop.
SurfaceUnqueried ==
  /\ swapChainSupportDetails =
       QuerySurfaceCapabilities([minimized |-> FALSE,
                                 size |-> Extent(InitialWidth, InitialHeight)],
                                SurfaceMinImageCount)
  /\ updWidth = 0
  /\ updHeight = 0
NothingBuilt == NothingCreated /\ SurfaceUnqueried

\* No buffer made.
NoBuffers ==
  /\ memProperties = <<>>
  /\ buffers = [name \in {} |-> NullBuffer]
  /\ transferQueue = <<>>
  /\ bufferCall = NoBufferCall
\* No physical device looked at, no swapchain negotiated.
NoDeviceChosen ==
  /\ physicalDevices = <<>>
  /\ physicalDevice = VK_NULL_HANDLE
  /\ supportFormats = <<>>
  /\ supportPresentModes = <<>>
  /\ swapChainCreateInfo = <<>>
NoQueues ==
  /\ queueFamilyProperties = <<>>
  /\ queueFamilyIndices = NoIndices
  /\ queueMap = [f \in {} |-> 0]
  /\ queueCreateInfos = <<>>
  /\ obtainedQueueCounters = [f \in {} |-> 0]
  /\ queues = [r \in {} |-> 0]

\* main() about to check a physical device with between one and
\* MaxFamilies queue families.
InitStartup ==
  /\ NothingBuilt
  /\ NoBuffers
  /\ NoDeviceChosen
  /\ pc = "get_queue_family"
  /\ queueFamilyProperties \in
       UNION {[1..n -> FamilyKinds] : n \in 1..MaxFamilies}
  /\ queueFamilyIndices = NoIndices
  /\ queueMap = [f \in {} |-> 0]
  /\ queueCreateInfos = <<>>
  /\ obtainedQueueCounters = [f \in {} |-> 0]
  /\ queues = [r \in {} |-> 0]

\* VkQueueFamilyProperties::queueCount, which the program never reads: a
\* family exposes between one queue and MaxQueueCount queues.
FamilyWithQueues(f, n) ==
  [queueFlags |-> f.queueFlags, supportPresent |-> f.supportPresent,
   queueCount |-> n]
QueueCountFamilies ==
  {FamilyWithQueues(f, n) :
     f \in {Family({"GRAPHICS", "TRANSFER", "COMPUTE"}, TRUE),
            Family({"GRAPHICS"}, TRUE),
            Family({"TRANSFER", "COMPUTE"}, FALSE)},
     n \in 1..MaxQueueCount}
\* main() about to check a physical device whose families expose any
\* number of queues.
InitQueueCounts ==
  /\ NothingBuilt
  /\ NoBuffers
  /\ NoDeviceChosen
  /\ pc = "get_queue_family"
  /\ queueFamilyProperties \in
       UNION {[1..n -> QueueCountFamilies] : n \in 1..MaxFamilies}
  /\ queueFamilyIndices = NoIndices
  /\ queueMap = [f \in {} |-> 0]
  /\ queueCreateInfos = <<>>
  /\ obtainedQueueCounters = [f \in {} |-> 0]
  /\ queues = [r \in {} |-> 0]

\* main() about to create the per-frame objects, on a surface with any
\* image-count limits: the swapchain and everything sized by its image
\* count exist, no per-frame vector does.
InitFrameResources ==
  /\ \E caps \in SurfaceCapabilities :
       StartedWith(caps, 0, "create_uniform_buffers")
  /\ staleBudget = 0

\* main() entering the frame loop on a surface with one of three lists of
\* formats: the preferred format alone, another alone, the preferred second.
SampleFormatLists == {<<SRGB>>, <<UNORM>>, <<UNORM, SRGB>>}
InitFormats ==
  /\ \E Formats \in SampleFormatLists :
       LET caps == QuerySurfaceCapabilities(
                     [minimized |-> FALSE,
                      size |-> Extent(InitialWidth, InitialHeight)],
                     SurfaceMinImageCount)
       IN StartedOn(Formats, caps, chooseImageCount(caps), "loop")
  /\ staleBudget = MaxGenLive

Init == Started /\ staleBudget = MaxGen
\* The same start with the smaller budget of swapchains.
InitLive == Started /\ staleBudget = MaxGenLive

\* main() with its device and command pools, about to use the buffer
\* helpers on two of its Buffer structs, for some memory types.
InitBuffers ==
  /\ NothingBuilt
  /\ NoDeviceChosen
  /\ NoQueues
  /\ pc = "buffers"
  /\ memProperties \in MemoryTypeLists
  /\ buffers = [name \in {"vertexBuffer", "vertexStagingBuffer"}
                  |-> NullBuffer]
  /\ transferQueue = <<>>
  /\ bufferCall = NoBufferCall

\* createSwapChain about to run for some surface and some requested size.
InitSwapChain ==
  /\ NothingCreated
  /\ NoBuffers
  /\ NoQueues
  /\ pc = "create_swapchain"
  /\ physicalDevices = <<>>
  /\ physicalDevice = VK_NULL_HANDLE
  /\ swapChainSupportDetails \in SurfaceCapabilities
  /\ supportFormats \in FormatLists
  /\ supportPresentModes \in PresentModeLists
  /\ updWidth \in RequestedWidths
  /\ updHeight \in RequestedHeights
  /\ swapChainCreateInfo = <<>>

\* main() about to go through the physical devices the instance enumerates.
InitSelect ==
  /\ NothingBuilt
  /\ NoBuffers
  /\ NoQueues
  /\ pc = "select_device"
  /\ physicalDevices \in UNION {[1..n -> DeviceKinds] : n \in 0..MaxDevices}
  /\ physicalDevice = VK_NULL_HANDLE
  /\ supportFormats = <<>>
  /\ supportPresentModes = <<>>
  /\ swapChainCreateInfo = <<>>

\* ------------------------------------------------------ action fragments
Goto(label) == pc' = label
Call(name) == log' = Append(log, name)
\* A call of the frame with the slot it ran in, the semaphores and fences it
\* waits on and signals, and the object it is given.
Did(call, waits, signals, object) ==
  frameOps' = Append(frameOps, [call |-> call, slot |-> currentFrame,
                                waits |-> waits, signals |-> signals,
                                object |-> object])
\* Index of a handle in the vector that holds it.
IndexOf(h) == h[3]

\* vkDestroy*: the handles stop being live.  Destroying a handle that is
\* not live, or one that pending GPU work still uses, is recorded.
DestroyHandles(hs) ==
  /\ live' = live \ hs
  /\ badDestroy' = badDestroy \cup ((hs \ {VK_NULL_HANDLE}) \ live)
  /\ destroyedInUse' = destroyedInUse \cup (hs \cap InUse)

\* vkCreate*: new live handles.
CreateHandles(hs) ==
  /\ live' = live \cup hs
  /\ created' = created \cup hs

\* Index of the current frame slot in the per-frame vectors.
Slot == currentFrame + 1

\* (variant: the wait returns at once, as with a zero timeout)
FenceWaitReturns_NoWait(s) == TRUE

\* vkWaitForFences(UINT64_MAX) returns once the fence is signaled.
FenceWaitReturns(s) == fenceSignaled[s]

\* (variant: the idle wait is missing)
DeviceIdle_NoWait == TRUE

\* vkDeviceWaitIdle / vkQueueWaitIdle return once no queue has work left.
DeviceIdle == graphicsQueue = <<>> /\ presentQueue = <<>>

\* Results the presentation engine may return (recreations are bounded).
StaleAllowed == gen < staleBudget
AcquireResults ==
  {"VK_SUCCESS", "VK_SUBOPTIMAL_KHR"}
    \cup (IF StaleAllowed THEN {"VK_ERROR_OUT_OF_DATE_KHR"} ELSE {})
PresentResults ==
  {"VK_SUCCESS"}
    \cup (IF StaleAllowed
          THEN {"VK_SUBOPTIMAL_KHR", "VK_ERROR_OUT_OF_DATE_KHR"} ELSE {})

\* (variant: the out-of-date branch after acquire is missing)
AcquireIsStale_Never(res) == FALSE

\* (variant: a suboptimal acquire is taken as stale too)
AcquireIsStale_OrSuboptimal(res) ==
  res \in {"VK_ERROR_OUT_OF_DATE_KHR", "VK_SUBOPTIMAL_KHR"}

\* if (acquireNextImageResult == VK_ERROR_OUT_OF_DATE_KHR)
AcquireIsStale(res) == res = "VK_ERROR_OUT_OF_DATE_KHR"
\* if (queuePresentResult == OUT_OF_DATE || queuePresentResult == SUBOPTIMAL)
PresentIsStale(res) ==
  res = "VK_ERROR_OUT_OF_DATE_KHR" \/ res = "VK_SUBOPTIMAL_KHR"

\* ------------------------------------------------------------- main loop
\* while (running): a new iteration starts with fresh locals of the body
\* (imageIndex, acquireNextImageResult, queuePresentResult).
\* (variant: the loop does not test the flag, as with while (true))
LoopCondition_Always == TRUE

\* while (running)
LoopCondition == running

LoopTest ==
  /\ pc = "loop"
  /\ IF LoopCondition
     THEN /\ Goto("poll")
          /\ log' = <<>>
          /\ frameOps' = <<>>
          /\ imageIndex' = -1
          /\ acquireNextImageResult' = "NONE"
          /\ queuePresentResult' = "NONE"
     ELSE /\ Goto("shutdown_idle")
          /\ UNCHANGED <<log, frameOps, imageIndex, acquireNextImageResult,
                         queuePresentResult>>
  /\ UNCHANGED <<retpc, running, currentFrame, numSwapChainImages,
               swapChainSupportDetails, swapChain, swapChainImageViews,
               swapChainFramebuffers, renderPass, graphicsPipeline, viewport,
               scissor, frameRes, cmdRecorded, updWidth, updHeight, live,
               created, gen, nextImage, renderPassCreateInfo, createdFormat,
               fenceSignaled, semSignaled, graphicsQueue, presentQueue,
               imageAcquired, acquirePending, window, failed, badDestroy,
               destroyedInUse, hazardWrites, sinceSubmit, staleBudget,
               queueFamilyProperties, queueFamilyIndices, queueMap,
               queueCreateInfos, obtainedQueueCounters, queues,
               physicalDevices, physicalDevice, supportFormats,
               supportPresentModes, swapChainCreateInfo, memProperties,
               buffers, transferQueue, bufferCall>>

\* while (SDL_PollEvent(&e) != 0) if (e.type == SDL_QUIT) running = false;

\* The queue holds an SDL_QUIT or it does not.

PollEvents ==
  /\ pc = "poll"
  /\ \E quit \in BOOLEAN : running' = IF quit THEN FALSE ELSE running
  /\ Call("SDL_PollEvent")
  /\ Goto("acquire")
  /\ UNCHANGED <<retpc, currentFrame, imageIndex, acquireNextImageResult,
               queuePresentResult, numSwapChainImages,
               swapChainSupportDetails, swapChain, swapChainImageViews,
               swapChainFramebuffers, renderPass, graphicsPipeline, viewport,
               scissor, frameRes, cmdRecorded, updWidth, updHeight, live,
               created, gen, nextImage, renderPassCreateInfo, createdFormat,
               fenceSignaled, semSignaled, graphicsQueue, presentQueue,
               imageAcquired, acquirePending, window, frameOps, failed,
               badDestroy, destroyedInUse, hazardWrites, sinceSubmit,
               staleBudget, queueFamilyProperties, queueFamilyIndices,
               queueMap, queueCreateInfos, obtainedQueueCounters, queues,
               physicalDevices, physicalDevice, supportFormats,
               supportPresentModes, swapChainCreateInfo, memProperties,
               buffers, transferQueue, bufferCall>>

\* Presents of image img of the live swapchain the engine has yet to run.
PendingPresentsOf(img) ==
  Cardinality({k \in 1..Len(presentQueue) :
                 /\ presentQueue[k].swapchain = swapChain.Handle
                 /\ presentQueue[k].image = img})

\* The semaphore vkAcquireNextImageKHR is given.
AcquireSemaphore == frameRes.imageAvailableSemaphores[Slot]

\* vkAcquireNextImageKHR(..., imageAvailableSemaphores[currentFrame], ...)
\* and the branch on its result.  The call may return an image the engine
\* still reads; the semaphore is signaled once the engine is done with it.

AcquireNextImage ==
  /\ pc = "acquire"
  /\ \E res \in AcquireResults :
       /\ acquireNextImageResult' = res
       /\ IF res = "VK_ERROR_OUT_OF_DATE_KHR"
          THEN /\ UNCHANGED <<imageIndex, imageAcquired, semSignaled,
                              acquirePending>>
               /\ Did("vkAcquireNextImageKHR", {}, {}, swapChain.Handle)
          ELSE \E img \in (0..(numSwapChainImages - 1)) \ imageAcquired :
                 /\ imageIndex' = img
                 /\ imageAcquired' = imageAcquired \cup {img}
                 /\ Did("vkAcquireNextImageKHR", {}, {AcquireSemaphore},
                        swapChain.Handle)
                 /\ IF PendingPresentsOf(img) = 0
                    THEN /\ semSignaled' =
                              [semSignaled EXCEPT
                                 !.imageAvailable[IndexOf(AcquireSemaphore)] =
                                    TRUE]
                         /\ acquirePending' = acquirePending
                    ELSE /\ semSignaled' = semSignaled
                         /\ acquirePending' = acquirePending \cup
                              {[slot |-> currentFrame, image |-> img,
                                semaphore |-> AcquireSemaphore,
                                remaining |-> PendingPresentsOf(img)]}
       /\ Goto(IF AcquireIsStale(res) THEN "acquire_stale" ELSE "wait_fence")
  /\ Call("vkAcquireNextImageKHR")
  /\ UNCHANGED <<retpc, running, currentFrame, queuePresentResult,
               numSwapChainImages, swapChainSupportDetails, swapChain,
               swapChainImageViews, swapChainFramebuffers, renderPass,
               graphicsPipeline, viewport, scissor, frameRes, cmdRecorded,
               updWidth, updHeight, live, created, gen, nextImage,
               renderPassCreateInfo, createdFormat, fenceSignaled,
               graphicsQueue, presentQueue, window, failed, badDestroy,
               destroyedInUse, hazardWrites, sinceSubmit, staleBudget,
               queueFamilyProperties, queueFamilyIndices, queueMap,
               queueCreateInfos, obtainedQueueCounters, queues,
               physicalDevices, physicalDevice, supportFormats,
               supportPresentModes, swapChainCreateInfo, memProperties,
               buffers, transferQueue, bufferCall>>

\* vkGetPhysicalDeviceSurfaceCapabilitiesKHR; updateSwapChain(...); continue;

AcquireStale ==
  /\ pc = "acquire_stale"
  /\ swapChainSupportDetails' =
       QuerySurfaceCapabilities(window,
                                swapChainSupportDetails.minImageCount)
  /\ retpc' = "loop"
  /\ Call("vkGetPhysicalDeviceSurfaceCapabilitiesKHR")
  /\ Goto("upd_enter")
  /\ UNCHANGED <<running, currentFrame, imageIndex, acquireNextImageResult,
               queuePresentResult, numSwapChainImages, swapChain,
               swapChainImageViews, swapChainFramebuffers, renderPass,
               graphicsPipeline, viewport, scissor, frameRes, cmdRecorded,
               updWidth, updHeight, live, created, gen, nextImage,
               renderPassCreateInfo, createdFormat, fenceSignaled,
               semSignaled, graphicsQueue, presentQueue, imageAcquired,
               acquirePending, window, frameOps, failed, badDestroy,
               destroyedInUse, hazardWrites, sinceSubmit, staleBudget,
               queueFamilyProperties, queueFamilyIndices, queueMap,
               queueCreateInfos, obtainedQueueCounters, queues,
               physicalDevices, physicalDevice, supportFormats,
               supportPresentModes, swapChainCreateInfo, memProperties,
               buffers, transferQueue, bufferCall>>

\* vkWaitForFences(device, 1, &imageAvailableFences[currentFrame], ...)

WaitForFences ==
  /\ pc = "wait_fence"
  /\ FenceWaitReturns(Slot)
  /\ Did("vkWaitForFences", {frameRes.imageAvailableFences[Slot]}, {},
         VK_NULL_HANDLE)
  /\ Call("vkWaitForFences")
  /\ Goto("reset_fence")
  /\ UNCHANGED <<retpc, running, currentFrame, imageIndex,
               acquireNextImageResult, queuePresentResult,
               numSwapChainImages, swapChainSupportDetails, swapChain,
               swapChainImageViews, swapChainFramebuffers, renderPass,
               graphicsPipeline, viewport, scissor, frameRes, cmdRecorded,
               updWidth, updHeight, live, created, gen, nextImage,
               renderPassCreateInfo, createdFormat, fenceSignaled,
               semSignaled, graphicsQueue, presentQueue, imageAcquired,
               acquirePending, window, failed, badDestroy, destroyedInUse,
               hazardWrites, sinceSubmit, staleBudget, queueFamilyProperties,
               queueFamilyIndices, queueMap, queueCreateInfos,
               obtainedQueueCounters, queues, physicalDevices,
               physicalDevice, supportFormats, supportPresentModes,
               swapChainCreateInfo, memProperties, buffers, transferQueue,
               bufferCall>>

\* vkResetFences(device, 1, &imageAvailableFences[currentFrame])

ResetFences ==
  /\ pc = "reset_fence"
  /\ fenceSignaled' = [fenceSignaled EXCEPT ![Slot] = FALSE]
  /\ Did("vkResetFences", {}, {}, frameRes.imageAvailableFences[Slot])
  /\ Call("vkResetFences")
  /\ Goto("write_uniform")
  /\ UNCHANGED <<retpc, running, currentFrame, imageIndex,
               acquireNextImageResult, queuePresentResult,
               numSwapChainImages, swapChainSupportDetails, swapChain,
               swapChainImageViews, swapChainFramebuffers, renderPass,
               graphicsPipeline, viewport, scissor, frameRes, cmdRecorded,
               updWidth, updHeight, live, created, gen, nextImage,
               renderPassCreateInfo, createdFormat, semSignaled,
               graphicsQueue, presentQueue, imageAcquired, acquirePending,
               window, failed, badDestroy, destroyedInUse, hazardWrites,
               sinceSubmit, staleBudget, queueFamilyProperties,
               queueFamilyIndices, queueMap, queueCreateInfos,
               obtainedQueueCounters, queues, physicalDevices,
               physicalDevice, supportFormats, supportPresentModes,
               swapChainCreateInfo, memProperties, buffers, transferQueue,
               bufferCall>>

\* (variant: the buffer of the following slot is written)
UniformWriteTarget_Next ==
  frameRes.uniformBuffers[((currentFrame + 1) % numSwapChainImages) + 1]

\* uniformBuffers[currentFrame], the buffer the loop maps and writes
UniformWriteTarget == frameRes.uniformBuffers[Slot]

\* vkMapMemory / memcpy / vkUnmapMemory on uniformBuffers[currentFrame]

WriteUniform ==
  /\ pc = "write_uniform"
  /\ hazardWrites' =
       IF UniformWriteTarget \in InUse
       THEN hazardWrites \cup {currentFrame}
       ELSE hazardWrites
  /\ Did("memcpy", {}, {}, UniformWriteTarget)
  /\ Call("memcpy")
  /\ Goto("submit")
  /\ UNCHANGED <<retpc, running, currentFrame, imageIndex,
               acquireNextImageResult, queuePresentResult,
               numSwapChainImages, swapChainSupportDetails, swapChain,
               swapChainImageViews, swapChainFramebuffers, renderPass,
               graphicsPipeline, viewport, scissor, frameRes, cmdRecorded,
               updWidth, updHeight, live, created, gen, nextImage,
               renderPassCreateInfo, createdFormat, fenceSignaled,
               semSignaled, graphicsQueue, presentQueue, imageAcquired,
               acquirePending, window, failed, badDestroy, destroyedInUse,
               sinceSubmit, staleBudget, queueFamilyProperties,
               queueFamilyIndices, queueMap, queueCreateInfos,
               obtainedQueueCounters, queues, physicalDevices,
               physicalDevice, supportFormats, supportPresentModes,
               swapChainCreateInfo, memProperties, buffers, transferQueue,
               bufferCall>>

\* submitInfo.pWaitSemaphores, submitInfo.pSignalSemaphores and the fence
SubmitWaitSemaphore == frameRes.imageAvailableSemaphores[Slot]
SubmitSignalSemaphore == frameRes.renderFinishedSemaphores[Slot]
SubmitFence == frameRes.imageAvailableFences[Slot]

\* vkQueueSubmit(graphicsQueue, 1, &submitInfo,
\*               imageAvailableFences[currentFrame])

QueueSubmit ==
  /\ pc = "submit"
  /\ Len(graphicsQueue) <= Len(fenceSignaled)
  /\ graphicsQueue' =
       Append(graphicsQueue,
              [slot      |-> currentFrame,
               cmdBuffer |-> frameRes.graphicsCmdBuffers[Slot],
               cmd       |-> cmdRecorded[Slot],
               wait      |-> SubmitWaitSemaphore,
               signal    |-> SubmitSignalSemaphore,
               fence     |-> SubmitFence])
  /\ Did("vkQueueSubmit", {SubmitWaitSemaphore},
         {SubmitSignalSemaphore, SubmitFence},
         frameRes.graphicsCmdBuffers[Slot])
  /\ sinceSubmit' = 0
  /\ Call("vkQueueSubmit")
  /\ Goto("present")
  /\ UNCHANGED <<retpc, running, currentFrame, imageIndex,
               acquireNextImageResult, queuePresentResult,
               numSwapChainImages, swapChainSupportDetails, swapChain,
               swapChainImageViews, swapChainFramebuffers, renderPass,
               graphicsPipeline, viewport, scissor, frameRes, cmdRecorded,
               updWidth, updHeight, live, created, gen, nextImage,
               renderPassCreateInfo, createdFormat, fenceSignaled,
               semSignaled, presentQueue, imageAcquired, acquirePending,
               window, failed, badDestroy, destroyedInUse, hazardWrites,
               staleBudget, queueFamilyProperties, queueFamilyIndices,
               queueMap, queueCreateInfos, obtainedQueueCounters, queues,
               physicalDevices, physicalDevice, supportFormats,
               supportPresentModes, swapChainCreateInfo, memProperties,
               buffers, transferQueue, bufferCall>>

\* (variant: the semaphore is picked by the image, not by the frame slot)
PresentWaitSemaphore_ByImage ==
  frameRes.renderFinishedSemaphores[imageIndex + 1]

\* presentInfo.pWaitSemaphores = &renderFinishedSemaphores[currentFrame]
PresentWaitSemaphore == frameRes.renderFinishedSemaphores[Slot]

\* vkQueuePresentKHR(presentQueue, &presentInfo) and the branch on its result

QueuePresent ==
  /\ pc = "present"
  /\ \E res \in PresentResults :
       /\ queuePresentResult' = res
       /\ Goto(IF PresentIsStale(res) THEN "present_stale" ELSE "advance")
  /\ presentQueue' =
       Append(presentQueue,
              [slot |-> currentFrame, swapchain |-> swapChain.Handle,
               wait |-> PresentWaitSemaphore, image |-> imageIndex])
  /\ Did("vkQueuePresentKHR", {PresentWaitSemaphore}, {}, swapChain.Handle)
  /\ imageAcquired' = imageAcquired \ {imageIndex}
  /\ Call("vkQueuePresentKHR")
  /\ UNCHANGED <<retpc, running, currentFrame, imageIndex,
               acquireNextImageResult, numSwapChainImages,
               swapChainSupportDetails, swapChain, swapChainImageViews,
               swapChainFramebuffers, renderPass, graphicsPipeline, viewport,
               scissor, frameRes, cmdRecorded, updWidth, updHeight, live,
               created, gen, nextImage, renderPassCreateInfo, createdFormat,
               fenceSignaled, semSignaled, graphicsQueue, acquirePending,
               window, failed, badDestroy, destroyedInUse, hazardWrites,
               sinceSubmit, staleBudget, queueFamilyProperties,
               queueFamilyIndices, queueMap, queueCreateInfos,
               obtainedQueueCounters, queues, physicalDevices,
               physicalDevice, supportFormats, supportPresentModes,
               swapChainCreateInfo, memProperties, buffers, transferQueue,
               bufferCall>>

\* (variant: the stale-present branch ends with continue)
PresentStaleReturn_Continue == "loop"

\* After the stale-present branch the body falls through to the advance.
PresentStaleReturn == "advance"

\* vkGetPhysicalDeviceSurfaceCapabilitiesKHR; updateSwapChain(...);

PresentStale ==
  /\ pc = "present_stale"
  /\ swapChainSupportDetails' =
       QuerySurfaceCapabilities(window,
                                swapChainSupportDetails.minImageCount)
  /\ retpc' = PresentStaleReturn
  /\ Call("vkGetPhysicalDeviceSurfaceCapabilitiesKHR")
  /\ Goto("upd_enter")
  /\ UNCHANGED <<running, currentFrame, imageIndex, acquireNextImageResult,
               queuePresentResult, numSwapChainImages, swapChain,
               swapChainImageViews, swapChainFramebuffers, renderPass,
               graphicsPipeline, viewport, scissor, frameRes, cmdRecorded,
               updWidth, updHeight, live, created, gen, nextImage,
               renderPassCreateInfo, createdFormat, fenceSignaled,
               semSignaled, graphicsQueue, presentQueue, imageAcquired,
               acquirePending, window, frameOps, failed, badDestroy,
               destroyedInUse, hazardWrites, sinceSubmit, staleBudget,
               queueFamilyProperties, queueFamilyIndices, queueMap,
               queueCreateInfos, obtainedQueueCounters, queues,
               physicalDevices, physicalDevice, supportFormats,
               supportPresentModes, swapChainCreateInfo, memProperties,
               buffers, transferQueue, bufferCall>>

\* currentFrame = (currentFrame + 1) % numSwapChainImages;
NextFrame(cf, n) == (cf + 1) % n

AdvanceFrame ==
  /\ pc = "advance"
  /\ currentFrame' = NextFrame(currentFrame, numSwapChainImages)
  /\ Did("advance", {}, {}, VK_NULL_HANDLE)
  /\ Call("advance")
  /\ Goto("loop")
  /\ UNCHANGED <<retpc, running, imageIndex, acquireNextImageResult,
               queuePresentResult, numSwapChainImages,
               swapChainSupportDetails, swapChain, swapChainImageViews,
               swapChainFramebuffers, renderPass, graphicsPipeline, viewport,
               scissor, frameRes, cmdRecorded, updWidth, updHeight, live,
               created, gen, nextImage, renderPassCreateInfo, createdFormat,
               fenceSignaled, semSignaled, graphicsQueue, presentQueue,
               imageAcquired, acquirePending, window, failed, badDestroy,
               destroyedInUse, hazardWrites, sinceSubmit, staleBudget,
               queueFamilyProperties, queueFamilyIndices, queueMap,
               queueCreateInfos, obtainedQueueCounters, queues,
               physicalDevices, physicalDevice, supportFormats,
               supportPresentModes, swapChainCreateInfo, memProperties,
               buffers, transferQueue, bufferCall>>

\* ------------------------------------------------------- updateSwapChain
\* int width = 0, height = 0;
\* if (SDL_GetWindowFlags(_window) & SDL_WINDOW_MINIMIZED) ...

UpdCheckMinimized ==
  /\ pc = "upd_enter"
  /\ updWidth' = 0
  /\ updHeight' = 0
  /\ Call("updateSwapChain")
  /\ Goto(IF window.minimized THEN "upd_wait_event" ELSE "upd_get_size")
  /\ UNCHANGED <<retpc, running, currentFrame, imageIndex,
               acquireNextImageResult, queuePresentResult,
               numSwapChainImages, swapChainSupportDetails, swapChain,
               swapChainImageViews, swapChainFramebuffers, renderPass,
               graphicsPipeline, viewport, scissor, frameRes, cmdRecorded,
               live, created, gen, nextImage, renderPassCreateInfo,
               createdFormat, fenceSignaled, semSignaled, graphicsQueue,
               presentQueue, imageAcquired, acquirePending, window, frameOps,
               failed, badDestroy, destroyedInUse, hazardWrites, sinceSubmit,
               staleBudget, queueFamilyProperties, queueFamilyIndices,
               queueMap, queueCreateInfos, obtainedQueueCounters, queues,
               physicalDevices, physicalDevice, supportFormats,
               supportPresentModes, swapChainCreateInfo, memProperties,
               buffers, transferQueue, bufferCall>>

\* Events that end SDL_WaitEvent: the window is restored, or anything else
\* (mouse, keyboard, focus, quit) that leaves the window minimized.
WaitEventKinds == {"restored", "other"}

\* SDL_WaitEvent(nullptr): blocks until an event of any kind is in the queue.

UpdWaitEvent ==
  /\ pc = "upd_wait_event"
  /\ \E ev \in WaitEventKinds :
       window' = IF ev = "restored"
                 THEN [window EXCEPT !.minimized = FALSE]
                 ELSE window
  /\ Call("SDL_WaitEvent")
  /\ Goto("upd_get_size")
  /\ UNCHANGED <<retpc, running, currentFrame, imageIndex,
               acquireNextImageResult, queuePresentResult,
               numSwapChainImages, swapChainSupportDetails, swapChain,
               swapChainImageViews, swapChainFramebuffers, renderPass,
               graphicsPipeline, viewport, scissor, frameRes, cmdRecorded,
               updWidth, updHeight, live, created, gen, nextImage,
               renderPassCreateInfo, createdFormat, fenceSignaled,
               semSignaled, graphicsQueue, presentQueue, imageAcquired,
               acquirePending, frameOps, failed, badDestroy, destroyedInUse,
               hazardWrites, sinceSubmit, staleBudget, queueFamilyProperties,
               queueFamilyIndices, queueMap, queueCreateInfos,
               obtainedQueueCounters, queues, physicalDevices,
               physicalDevice, supportFormats, supportPresentModes,
               swapChainCreateInfo, memProperties, buffers, transferQueue,
               bufferCall>>

\* SDL_GetWindowSize(_window, &width, &height);

UpdGetWindowSize ==
  /\ pc = "upd_get_size"
  /\ updWidth' = window.size.width
  /\ updHeight' = window.size.height
  /\ Call("SDL_GetWindowSize")
  /\ Goto("upd_wait_idle")
  /\ UNCHANGED <<retpc, running, currentFrame, imageIndex,
               acquireNextImageResult, queuePresentResult,
               numSwapChainImages, swapChainSupportDetails, swapChain,
               swapChainImageViews, swapChainFramebuffers, renderPass,
               graphicsPipeline, viewport, scissor, frameRes, cmdRecorded,
               live, created, gen, nextImage, renderPassCreateInfo,
               createdFormat, fenceSignaled, semSignaled, graphicsQueue,
               presentQueue, imageAcquired, acquirePending, window, frameOps,
               failed, badDestroy, destroyedInUse, hazardWrites, sinceSubmit,
               staleBudget, queueFamilyProperties, queueFamilyIndices,
               queueMap, queueCreateInfos, obtainedQueueCounters, queues,
               physicalDevices, physicalDevice, supportFormats,
               supportPresentModes, swapChainCreateInfo, memProperties,
               buffers, transferQueue, bufferCall>>

\* vkDeviceWaitIdle(_device);

UpdDeviceWaitIdle ==
  /\ pc = "upd_wait_idle"
  /\ DeviceIdle
  /\ Call("vkDeviceWaitIdle")
  /\ Goto("upd_destroy_framebuffers")
  /\ UNCHANGED <<retpc, running, currentFrame, imageIndex,
               acquireNextImageResult, queuePresentResult,
               numSwapChainImages, swapChainSupportDetails, swapChain,
               swapChainImageViews, swapChainFramebuffers, renderPass,
               graphicsPipeline, viewport, scissor, frameRes, cmdRecorded,
               updWidth, updHeight, live, created, gen, nextImage,
               renderPassCreateInfo, createdFormat, fenceSignaled,
               semSignaled, graphicsQueue, presentQueue, imageAcquired,
               acquirePending, window, frameOps, failed, badDestroy,
               destroyedInUse, hazardWrites, sinceSubmit, staleBudget,
               queueFamilyProperties, queueFamilyIndices, queueMap,
               queueCreateInfos, obtainedQueueCounters, queues,
               physicalDevices, physicalDevice, supportFormats,
               supportPresentModes, swapChainCreateInfo, memProperties,
               buffers, transferQueue, bufferCall>>

\* (variant: the framebuffers are only dropped from the vector)
OldFramebuffers_None == {}

\* The framebuffers the destroy loop of updateSwapChain visits.
OldFramebuffers == SeqToSet(swapChainFramebuffers)

\* for (fb : _swapChainFramebuffers) vkDestroyFramebuffer; .clear();

UpdDestroyFramebuffers ==
  /\ pc = "upd_destroy_framebuffers"
  /\ DestroyHandles(OldFramebuffers)
  /\ swapChainFramebuffers' = <<>>
  /\ Call("vkDestroyFramebuffer")
  /\ Goto("upd_destroy_pipeline")
  /\ UNCHANGED <<retpc, running, currentFrame, imageIndex,
               acquireNextImageResult, queuePresentResult,
               numSwapChainImages, swapChainSupportDetails, swapChain,
               swapChainImageViews, renderPass, graphicsPipeline, viewport,
               scissor, frameRes, cmdRecorded, updWidth, updHeight, created,
               gen, nextImage, renderPassCreateInfo, createdFormat,
               fenceSignaled, semSignaled, graphicsQueue, presentQueue,
               imageAcquired, acquirePending, window, frameOps, failed,
               hazardWrites, sinceSubmit, staleBudget, queueFamilyProperties,
               queueFamilyIndices, queueMap, queueCreateInfos,
               obtainedQueueCounters, queues, physicalDevices,
               physicalDevice, supportFormats, supportPresentModes,
               swapChainCreateInfo, memProperties, buffers, transferQueue,
               bufferCall>>

\* vkDestroyPipeline(_device, _graphicsPipeline, nullptr);

UpdDestroyPipeline ==
  /\ pc = "upd_destroy_pipeline"
  /\ DestroyHandles({graphicsPipeline})
  /\ Call("vkDestroyPipeline")
  /\ Goto("upd_destroy_render_pass")
  /\ UNCHANGED <<retpc, running, currentFrame, imageIndex,
               acquireNextImageResult, queuePresentResult,
               numSwapChainImages, swapChainSupportDetails, swapChain,
               swapChainImageViews, swapChainFramebuffers, renderPass,
               graphicsPipeline, viewport, scissor, frameRes, cmdRecorded,
               updWidth, updHeight, created, gen, nextImage,
               renderPassCreateInfo, createdFormat, fenceSignaled,
               semSignaled, graphicsQueue, presentQueue, imageAcquired,
               acquirePending, window, frameOps, failed, hazardWrites,
               sinceSubmit, staleBudget, queueFamilyProperties,
               queueFamilyIndices, queueMap, queueCreateInfos,
               obtainedQueueCounters, queues, physicalDevices,
               physicalDevice, supportFormats, supportPresentModes,
               swapChainCreateInfo, memProperties, buffers, transferQueue,
               bufferCall>>

\* vkDestroyRenderPass(_device, _renderPass, nullptr);

UpdDestroyRenderPass ==
  /\ pc = "upd_destroy_render_pass"
  /\ DestroyHandles({renderPass})
  /\ Call("vkDestroyRenderPass")
  /\ Goto("upd_destroy_image_views")
  /\ UNCHANGED <<retpc, running, currentFrame, imageIndex,
               acquireNextImageResult, queuePresentResult,
               numSwapChainImages, swapChainSupportDetails, swapChain,
               swapChainImageViews, swapChainFramebuffers, renderPass,
               graphicsPipeline, viewport, scissor, frameRes, cmdRecorded,
               updWidth, updHeight, created, gen, nextImage,
               renderPassCreateInfo, createdFormat, fenceSignaled,
               semSignaled, graphicsQueue, presentQueue, imageAcquired,
               acquirePending, window, frameOps, failed, hazardWrites,
               sinceSubmit, staleBudget, queueFamilyProperties,
               queueFamilyIndices, queueMap, queueCreateInfos,
               obtainedQueueCounters, queues, physicalDevices,
               physicalDevice, supportFormats, supportPresentModes,
               swapChainCreateInfo, memProperties, buffers, transferQueue,
               bufferCall>>

\* for (imageView : _swapChainImageViews) vkDestroyImageView; .clear();

UpdDestroyImageViews ==
  /\ pc = "upd_destroy_image_views"
  /\ DestroyHandles(SeqToSet(swapChainImageViews))
  /\ swapChainImageViews' = <<>>
  /\ Call("vkDestroyImageView")
  /\ Goto("upd_destroy_swapchain")
  /\ UNCHANGED <<retpc, running, currentFrame, imageIndex,
               acquireNextImageResult, queuePresentResult,
               numSwapChainImages, swapChainSupportDetails, swapChain,
               swapChainFramebuffers, renderPass, graphicsPipeline, viewport,
               scissor, frameRes, cmdRecorded, updWidth, updHeight, created,
               gen, nextImage, renderPassCreateInfo, createdFormat,
               fenceSignaled, semSignaled, graphicsQueue, presentQueue,
               imageAcquired, acquirePending, window, frameOps, failed,
               hazardWrites, sinceSubmit, staleBudget, queueFamilyProperties,
               queueFamilyIndices, queueMap, queueCreateInfos,
               obtainedQueueCounters, queues, physicalDevices,
               physicalDevice, supportFormats, supportPresentModes,
               swapChainCreateInfo, memProperties, buffers, transferQueue,
               bufferCall>>

\* (variant: the old swapchain is kept)
OldSwapchain_None == {}

\* The swapchain updateSwapChain destroys before it creates the next one.
OldSwapchain == {swapChain.Handle}

\* vkDestroySwapchainKHR(_device, _swapChain.Handle, nullptr);

UpdDestroySwapchain ==
  /\ pc = "upd_destroy_swapchain"
  /\ DestroyHandles(OldSwapchain)
  /\ Call("vkDestroySwapchainKHR")
  /\ Goto("upd_create_swapchain")
  /\ UNCHANGED <<retpc, running, currentFrame, imageIndex,
               acquireNextImageResult, queuePresentResult,
               numSwapChainImages, swapChainSupportDetails, swapChain,
               swapChainImageViews, swapChainFramebuffers, renderPass,
               graphicsPipeline, viewport, scissor, frameRes, cmdRecorded,
               updWidth, updHeight, created, gen, nextImage,
               renderPassCreateInfo, createdFormat, fenceSignaled,
               semSignaled, graphicsQueue, presentQueue, imageAcquired,
               acquirePending, window, frameOps, failed, hazardWrites,
               sinceSubmit, staleBudget, queueFamilyProperties,
               queueFamilyIndices, queueMap, queueCreateInfos,
               obtainedQueueCounters, queues, physicalDevices,
               physicalDevice, supportFormats, supportPresentModes,
               swapChainCreateInfo, memProperties, buffers, transferQueue,
               bufferCall>>

\* _swapChain = createSwapChain(_device, _surface, _swapChainSupportDetails,
\*                              width, height, _queueFamilyIndices);

UpdCreateSwapChain ==
  /\ pc = "upd_create_swapchain"
  /\ gen' = gen + 1
  /\ swapChain' =
       createSwapChain(swapChainSupportDetails, updWidth, updHeight, gen + 1)
  /\ swapChainCreateInfo' =
       SwapChainCreateInfo(swapChainSupportDetails, supportFormats,
                           supportPresentModes, updWidth, updHeight)
  /\ CreateHandles({swapChain'.Handle})
  /\ imageAcquired' = {}
  /\ nextImage' = 0
  /\ Call("vkCreateSwapchainKHR")
  /\ Goto("upd_get_images")
  /\ UNCHANGED <<retpc, running, currentFrame, imageIndex,
               acquireNextImageResult, queuePresentResult,
               numSwapChainImages, swapChainSupportDetails,
               swapChainImageViews, swapChainFramebuffers, renderPass,
               graphicsPipeline, viewport, scissor, frameRes, cmdRecorded,
               updWidth, updHeight, renderPassCreateInfo, createdFormat,
               fenceSignaled, semSignaled, graphicsQueue, presentQueue,
               acquirePending, window, frameOps, failed, badDestroy,
               destroyedInUse, hazardWrites, sinceSubmit, staleBudget,
               queueFamilyProperties, queueFamilyIndices, queueMap,
               queueCreateInfos, obtainedQueueCounters, queues,
               physicalDevices, physicalDevice, supportFormats,
               supportPresentModes, memProperties, buffers, transferQueue,
               bufferCall>>

\* vkGetSwapchainImagesKHR(..., &_numSwapChainImages, ...);

UpdGetSwapchainImages ==
  /\ pc = "upd_get_images"
  /\ numSwapChainImages' = chooseImageCount(swapChainSupportDetails)
  /\ Call("vkGetSwapchainImagesKHR")
  /\ Goto("upd_create_image_views")
  /\ UNCHANGED <<retpc, running, currentFrame, imageIndex,
               acquireNextImageResult, queuePresentResult,
               swapChainSupportDetails, swapChain, swapChainImageViews,
               swapChainFramebuffers, renderPass, graphicsPipeline, viewport,
               scissor, frameRes, cmdRecorded, updWidth, updHeight, live,
               created, gen, nextImage, renderPassCreateInfo, createdFormat,
               fenceSignaled, semSignaled, graphicsQueue, presentQueue,
               imageAcquired, acquirePending, window, frameOps, failed,
               badDestroy, destroyedInUse, hazardWrites, sinceSubmit,
               staleBudget, queueFamilyProperties, queueFamilyIndices,
               queueMap, queueCreateInfos, obtainedQueueCounters, queues,
               physicalDevices, physicalDevice, supportFormats,
               supportPresentModes, swapChainCreateInfo, memProperties,
               buffers, transferQueue, bufferCall>>

\* _swapChainImageViews.resize(n); for (i < n) vkCreateImageView(...)

UpdCreateImageViews ==
  /\ pc = "upd_create_image_views"
  /\ swapChainImageViews' = NewVector("imageView", gen, numSwapChainImages)
  /\ CreateHandles(SeqToSet(swapChainImageViews'))
  /\ createdFormat' =
       [createdFormat EXCEPT !.imageViews = swapChainCreateInfo.imageFormat]
  /\ Call("vkCreateImageView")
  /\ Goto("upd_create_render_pass")
  /\ UNCHANGED <<retpc, running, currentFrame, imageIndex,
               acquireNextImageResult, queuePresentResult,
               numSwapChainImages, swapChainSupportDetails, swapChain,
               swapChainFramebuffers, renderPass, graphicsPipeline, viewport,
               scissor, frameRes, cmdRecorded, updWidth, updHeight, gen,
               nextImage, renderPassCreateInfo, fenceSignaled, semSignaled,
               graphicsQueue, presentQueue, imageAcquired, acquirePending,
               window, frameOps, failed, badDestroy, destroyedInUse,
               hazardWrites, sinceSubmit, staleBudget, queueFamilyProperties,
               queueFamilyIndices, queueMap, queueCreateInfos,
               obtainedQueueCounters, queues, physicalDevices,
               physicalDevice, supportFormats, supportPresentModes,
               swapChainCreateInfo, memProperties, buffers, transferQueue,
               bufferCall>>

\* vkCreateRenderPass(_device, &_renderPassCreateInfo, nullptr, &_renderPass)

UpdCreateRenderPass ==
  /\ pc = "upd_create_render_pass"
  /\ renderPass' = Handle("renderPass", gen, 0)
  /\ CreateHandles({renderPass'})
  /\ createdFormat' =
       [createdFormat EXCEPT !.renderPass = renderPassCreateInfo.format]
  /\ Call("vkCreateRenderPass")
  /\ Goto("upd_create_pipeline")
  /\ UNCHANGED <<retpc, running, currentFrame, imageIndex,
               acquireNextImageResult, queuePresentResult,
               numSwapChainImages, swapChainSupportDetails, swapChain,
               swapChainImageViews, swapChainFramebuffers, graphicsPipeline,
               viewport, scissor, frameRes, cmdRecorded, updWidth, updHeight,
               gen, nextImage, renderPassCreateInfo, fenceSignaled,
               semSignaled, graphicsQueue, presentQueue, imageAcquired,
               acquirePending, window, frameOps, failed, badDestroy,
               destroyedInUse, hazardWrites, sinceSubmit, staleBudget,
               queueFamilyProperties, queueFamilyIndices, queueMap,
               queueCreateInfos, obtainedQueueCounters, queues,
               physicalDevices, physicalDevice, supportFormats,
               supportPresentModes, swapChainCreateInfo, memProperties,
               buffers, transferQueue, bufferCall>>

\* _viewPort.width = width; _viewPort.height = height;
\* vkCreateGraphicsPipelines(..., &_graphicsPipeline)

UpdCreatePipeline ==
  /\ pc = "upd_create_pipeline"
  /\ viewport' = Extent(updWidth, updHeight)
  /\ graphicsPipeline' = Handle("pipeline", gen, 0)
  /\ CreateHandles({graphicsPipeline'})
  /\ Call("vkCreateGraphicsPipelines")
  /\ Goto("upd_create_framebuffers")
  /\ UNCHANGED <<retpc, running, currentFrame, imageIndex,
               acquireNextImageResult, queuePresentResult,
               numSwapChainImages, swapChainSupportDetails, swapChain,
               swapChainImageViews, swapChainFramebuffers, renderPass,
               scissor, frameRes, cmdRecorded, updWidth, updHeight, gen,
               nextImage, renderPassCreateInfo, createdFormat, fenceSignaled,
               semSignaled, graphicsQueue, presentQueue, imageAcquired,
               acquirePending, window, frameOps, failed, badDestroy,
               destroyedInUse, hazardWrites, sinceSubmit, staleBudget,
               queueFamilyProperties, queueFamilyIndices, queueMap,
               queueCreateInfos, obtainedQueueCounters, queues,
               physicalDevices, physicalDevice, supportFormats,
               supportPresentModes, swapChainCreateInfo, memProperties,
               buffers, transferQueue, bufferCall>>

\* _SwapChainFramebuffers.resize(n); for (i < n) vkCreateFramebuffer(...)

UpdCreateFramebuffers ==
  /\ pc = "upd_create_framebuffers"
  /\ swapChainFramebuffers' = NewVector("framebuffer", gen, numSwapChainImages)
  /\ CreateHandles(SeqToSet(swapChainFramebuffers'))
  /\ Call("vkCreateFramebuffer")
  /\ Goto("upd_reset_pool")
  /\ UNCHANGED <<retpc, running, currentFrame, imageIndex,
               acquireNextImageResult, queuePresentResult,
               numSwapChainImages, swapChainSupportDetails, swapChain,
               swapChainImageViews, renderPass, graphicsPipeline, viewport,
               scissor, frameRes, cmdRecorded, updWidth, updHeight, gen,
               nextImage, renderPassCreateInfo, createdFormat, fenceSignaled,
               semSignaled, graphicsQueue, presentQueue, imageAcquired,
               acquirePending, window, frameOps, failed, badDestroy,
               destroyedInUse, hazardWrites, sinceSubmit, staleBudget,
               queueFamilyProperties, queueFamilyIndices, queueMap,
               queueCreateInfos, obtainedQueueCounters, queues,
               physicalDevices, physicalDevice, supportFormats,
               supportPresentModes, swapChainCreateInfo, memProperties,
               buffers, transferQueue, bufferCall>>

\* (variant: the command buffers are freed and allocated anew)

UpdResetCommandPool_Realloc ==
  /\ pc = "upd_reset_pool"
  /\ frameRes' = [frameRes EXCEPT !.graphicsCmdBuffers =
                    NewVector("cmdBuffer", gen, Len(@))]
  /\ live' = (live \ SeqToSet(frameRes.graphicsCmdBuffers))
               \cup SeqToSet(frameRes'.graphicsCmdBuffers)
  /\ created' = created \cup SeqToSet(frameRes'.graphicsCmdBuffers)
  /\ cmdRecorded' = ResetCommandPool(cmdRecorded)
  /\ Call("vkResetCommandPool")
  /\ Goto("upd_record")
  /\ UNCHANGED <<retpc, running, currentFrame, imageIndex,
               acquireNextImageResult, queuePresentResult,
               numSwapChainImages, swapChainSupportDetails, swapChain,
               swapChainImageViews, swapChainFramebuffers, renderPass,
               graphicsPipeline, viewport, scissor, updWidth, updHeight, gen,
               nextImage, renderPassCreateInfo, createdFormat, fenceSignaled,
               semSignaled, graphicsQueue, presentQueue, imageAcquired,
               acquirePending, window, frameOps, failed, badDestroy,
               destroyedInUse, hazardWrites, sinceSubmit, staleBudget,
               queueFamilyProperties, queueFamilyIndices, queueMap,
               queueCreateInfos, obtainedQueueCounters, queues,
               physicalDevices, physicalDevice, supportFormats,
               supportPresentModes, swapChainCreateInfo, memProperties,
               buffers, transferQueue, bufferCall>>

\* vkResetCommandPool(_device, _graphicsCmdPool, 0)

UpdResetCommandPool ==
  /\ pc = "upd_reset_pool"
  /\ cmdRecorded' = ResetCommandPool(cmdRecorded)
  /\ Call("vkResetCommandPool")
  /\ Goto("upd_record")
  /\ UNCHANGED <<retpc, running, currentFrame, imageIndex,
               acquireNextImageResult, queuePresentResult,
               numSwapChainImages, swapChainSupportDetails, swapChain,
               swapChainImageViews, swapChainFramebuffers, renderPass,
               graphicsPipeline, viewport, scissor, frameRes, updWidth,
               updHeight, live, created, gen, nextImage,
               renderPassCreateInfo, createdFormat, fenceSignaled,
               semSignaled, graphicsQueue, presentQueue, imageAcquired,
               acquirePending, window, frameOps, failed, badDestroy,
               destroyedInUse, hazardWrites, sinceSubmit, staleBudget,
               queueFamilyProperties, queueFamilyIndices, queueMap,
               queueCreateInfos, obtainedQueueCounters, queues,
               physicalDevices, physicalDevice, supportFormats,
               supportPresentModes, swapChainCreateInfo, memProperties,
               buffers, transferQueue, bufferCall>>

\* recordCommand(_numSwapChainImages, ...); and return to the caller
\* recordCommand reads _graphicsCmdBuffers[i] and _descriptorSets[i] for
\* every i below _numSwapChainImages; an index past the end of a vector is
\* undefined behaviour, after which nothing is known about the program.
RecordInRange_Always(n, cmds, dsets) == TRUE
RecordInRange(n, cmds, dsets) == n <= Len(cmds) /\ n <= Len(dsets)

UpdRecordCommand ==
  /\ pc = "upd_record"
  /\ cmdRecorded' =
       recordCommand(numSwapChainImages, cmdRecorded, renderPass,
                     swapChainFramebuffers, graphicsPipeline,
                     frameRes.descriptorSets)
  /\ updWidth' = 0
  /\ updHeight' = 0
  /\ sinceSubmit' = IF sinceSubmit < MaxGen THEN sinceSubmit + 1
                    ELSE sinceSubmit
  /\ Call("recordCommand")
  /\ Goto(IF RecordInRange(numSwapChainImages, cmdRecorded,
                           frameRes.descriptorSets)
          THEN retpc ELSE "undefined")
  /\ UNCHANGED <<retpc, running, currentFrame, imageIndex,
               acquireNextImageResult, queuePresentResult,
               numSwapChainImages, swapChainSupportDetails, swapChain,
               swapChainImageViews, swapChainFramebuffers, renderPass,
               graphicsPipeline, viewport, scissor, frameRes, live, created,
               gen, nextImage, renderPassCreateInfo, createdFormat,
               fenceSignaled, semSignaled, graphicsQueue, presentQueue,
               imageAcquired, acquirePending, window, frameOps, failed,
               badDestroy, destroyedInUse, hazardWrites, staleBudget,
               queueFamilyProperties, queueFamilyIndices, queueMap,
               queueCreateInfos, obtainedQueueCounters, queues,
               physicalDevices, physicalDevice, supportFormats,
               supportPresentModes, swapChainCreateInfo, memProperties,
               buffers, transferQueue, bufferCall>>

UpdateSwapChain ==
  \/ UpdCheckMinimized \/ UpdWaitEvent \/ UpdGetWindowSize
  \/ UpdDeviceWaitIdle
  \/ UpdDestroyFramebuffers \/ UpdDestroyPipeline \/ UpdDestroyRenderPass
  \/ UpdDestroyImageViews \/ UpdDestroySwapchain
  \/ UpdCreateSwapChain \/ UpdGetSwapchainImages \/ UpdCreateImageViews
  \/ UpdCreateRenderPass \/ UpdCreatePipeline \/ UpdCreateFramebuffers
  \/ UpdResetCommandPool \/ UpdRecordCommand

\* -------------------------------------------------------------- shutdown
\* vkQueueWaitIdle returns once the queue has no work left.  The compute
\* queue is never given work and the transfer queue was waited idle by
\* copyBuffer before the loop.
GraphicsQueueIdle == graphicsQueue = <<>>
PresentQueueIdle == presentQueue = <<>>

\* vkQueueWaitIdle(computeQueue);

ShutdownWaitIdleCompute ==
  /\ pc = "shutdown_idle"
  /\ Call("vkQueueWaitIdle")
  /\ Goto("shutdown_idle_graphics")
  /\ UNCHANGED <<retpc, running, currentFrame, imageIndex,
               acquireNextImageResult, queuePresentResult,
               numSwapChainImages, swapChainSupportDetails, swapChain,
               swapChainImageViews, swapChainFramebuffers, renderPass,
               graphicsPipeline, viewport, scissor, frameRes, cmdRecorded,
               updWidth, updHeight, live, created, gen, nextImage,
               renderPassCreateInfo, createdFormat, fenceSignaled,
               semSignaled, graphicsQueue, presentQueue, imageAcquired,
               acquirePending, window, frameOps, failed, badDestroy,
               destroyedInUse, hazardWrites, sinceSubmit, staleBudget,
               queueFamilyProperties, queueFamilyIndices, queueMap,
               queueCreateInfos, obtainedQueueCounters, queues,
               physicalDevices, physicalDevice, supportFormats,
               supportPresentModes, swapChainCreateInfo, memProperties,
               buffers, transferQueue, bufferCall>>

\* vkQueueWaitIdle(graphicsQueue);

ShutdownWaitIdleGraphics ==
  /\ pc = "shutdown_idle_graphics"
  /\ GraphicsQueueIdle
  /\ Call("vkQueueWaitIdle")
  /\ Goto("shutdown_idle_transfer")
  /\ UNCHANGED <<retpc, running, currentFrame, imageIndex,
               acquireNextImageResult, queuePresentResult,
               numSwapChainImages, swapChainSupportDetails, swapChain,
               swapChainImageViews, swapChainFramebuffers, renderPass,
               graphicsPipeline, viewport, scissor, frameRes, cmdRecorded,
               updWidth, updHeight, live, created, gen, nextImage,
               renderPassCreateInfo, createdFormat, fenceSignaled,
               semSignaled, graphicsQueue, presentQueue, imageAcquired,
               acquirePending, window, frameOps, failed, badDestroy,
               destroyedInUse, hazardWrites, sinceSubmit, staleBudget,
               queueFamilyProperties, queueFamilyIndices, queueMap,
               queueCreateInfos, obtainedQueueCounters, queues,
               physicalDevices, physicalDevice, supportFormats,
               supportPresentModes, swapChainCreateInfo, memProperties,
               buffers, transferQueue, bufferCall>>

\* vkQueueWaitIdle(transferQueue);

ShutdownWaitIdleTransfer ==
  /\ pc = "shutdown_idle_transfer"
  /\ Call("vkQueueWaitIdle")
  /\ Goto("shutdown_idle_present")
  /\ UNCHANGED <<retpc, running, currentFrame, imageIndex,
               acquireNextImageResult, queuePresentResult,
               numSwapChainImages, swapChainSupportDetails, swapChain,
               swapChainImageViews, swapChainFramebuffers, renderPass,
               graphicsPipeline, viewport, scissor, frameRes, cmdRecorded,
               updWidth, updHeight, live, created, gen, nextImage,
               renderPassCreateInfo, createdFormat, fenceSignaled,
               semSignaled, graphicsQueue, presentQueue, imageAcquired,
               acquirePending, window, frameOps, failed, badDestroy,
               destroyedInUse, hazardWrites, sinceSubmit, staleBudget,
               queueFamilyProperties, queueFamilyIndices, queueMap,
               queueCreateInfos, obtainedQueueCounters, queues,
               physicalDevices, physicalDevice, supportFormats,
               supportPresentModes, swapChainCreateInfo, memProperties,
               buffers, transferQueue, bufferCall>>

\* vkQueueWaitIdle(presentQueue);

ShutdownWaitIdlePresent ==
  /\ pc = "shutdown_idle_present"
  /\ PresentQueueIdle
  /\ Call("vkQueueWaitIdle")
  /\ Goto("shutdown_sync")
  /\ UNCHANGED <<retpc, running, currentFrame, imageIndex,
               acquireNextImageResult, queuePresentResult,
               numSwapChainImages, swapChainSupportDetails, swapChain,
               swapChainImageViews, swapChainFramebuffers, renderPass,
               graphicsPipeline, viewport, scissor, frameRes, cmdRecorded,
               updWidth, updHeight, live, created, gen, nextImage,
               renderPassCreateInfo, createdFormat, fenceSignaled,
               semSignaled, graphicsQueue, presentQueue, imageAcquired,
               acquirePending, window, frameOps, failed, badDestroy,
               destroyedInUse, hazardWrites, sinceSubmit, staleBudget,
               queueFamilyProperties, queueFamilyIndices, queueMap,
               queueCreateInfos, obtainedQueueCounters, queues,
               physicalDevices, physicalDevice, supportFormats,
               supportPresentModes, swapChainCreateInfo, memProperties,
               buffers, transferQueue, bufferCall>>

\* for (i < numSwapChainImages) vkDestroySemaphore x2, vkDestroyFence

ShutdownDestroySync ==
  /\ pc = "shutdown_sync"
  /\ DestroyHandles(
       {frameRes.imageAvailableSemaphores[i] : i \in 1..numSwapChainImages}
         \cup {frameRes.renderFinishedSemaphores[i] :
                 i \in 1..numSwapChainImages}
         \cup {frameRes.imageAvailableFences[i] : i \in 1..numSwapChainImages})
  /\ Call("vkDestroySemaphore")
  /\ Goto("shutdown_cmd_buffers")
  /\ UNCHANGED <<retpc, running, currentFrame, imageIndex,
               acquireNextImageResult, queuePresentResult,
               numSwapChainImages, swapChainSupportDetails, swapChain,
               swapChainImageViews, swapChainFramebuffers, renderPass,
               graphicsPipeline, viewport, scissor, frameRes, cmdRecorded,
               updWidth, updHeight, created, gen, nextImage,
               renderPassCreateInfo, createdFormat, fenceSignaled,
               semSignaled, graphicsQueue, presentQueue, imageAcquired,
               acquirePending, window, frameOps, failed, hazardWrites,
               sinceSubmit, staleBudget, queueFamilyProperties,
               queueFamilyIndices, queueMap, queueCreateInfos,
               obtainedQueueCounters, queues, physicalDevices,
               physicalDevice, supportFormats, supportPresentModes,
               swapChainCreateInfo, memProperties, buffers, transferQueue,
               bufferCall>>

\* vkFreeCommandBuffers(device, graphicsCmdPool, size, graphicsCmdBuffers)

ShutdownFreeCommandBuffers ==
  /\ pc = "shutdown_cmd_buffers"
  /\ DestroyHandles(SeqToSet(frameRes.graphicsCmdBuffers))
  /\ Call("vkFreeCommandBuffers")
  /\ Goto("shutdown_descriptor_pool")
  /\ UNCHANGED <<retpc, running, currentFrame, imageIndex,
               acquireNextImageResult, queuePresentResult,
               numSwapChainImages, swapChainSupportDetails, swapChain,
               swapChainImageViews, swapChainFramebuffers, renderPass,
               graphicsPipeline, viewport, scissor, frameRes, cmdRecorded,
               updWidth, updHeight, created, gen, nextImage,
               renderPassCreateInfo, createdFormat, fenceSignaled,
               semSignaled, graphicsQueue, presentQueue, imageAcquired,
               acquirePending, window, frameOps, failed, hazardWrites,
               sinceSubmit, staleBudget, queueFamilyProperties,
               queueFamilyIndices, queueMap, queueCreateInfos,
               obtainedQueueCounters, queues, physicalDevices,
               physicalDevice, supportFormats, supportPresentModes,
               swapChainCreateInfo, memProperties, buffers, transferQueue,
               bufferCall>>

\* vkDestroyDescriptorPool: the sets allocated from the pool go with it.

ShutdownDestroyDescriptorPool ==
  /\ pc = "shutdown_descriptor_pool"
  /\ DestroyHandles({descriptorPool} \cup SeqToSet(frameRes.descriptorSets))
  /\ Call("vkDestroyDescriptorPool")
  /\ Goto("shutdown_uniform_buffers")
  /\ UNCHANGED <<retpc, running, currentFrame, imageIndex,
               acquireNextImageResult, queuePresentResult,
               numSwapChainImages, swapChainSupportDetails, swapChain,
               swapChainImageViews, swapChainFramebuffers, renderPass,
               graphicsPipeline, viewport, scissor, frameRes, cmdRecorded,
               updWidth, updHeight, created, gen, nextImage,
               renderPassCreateInfo, createdFormat, fenceSignaled,
               semSignaled, graphicsQueue, presentQueue, imageAcquired,
               acquirePending, window, frameOps, failed, hazardWrites,
               sinceSubmit, staleBudget, queueFamilyProperties,
               queueFamilyIndices, queueMap, queueCreateInfos,
               obtainedQueueCounters, queues, physicalDevices,
               physicalDevice, supportFormats, supportPresentModes,
               swapChainCreateInfo, memProperties, buffers, transferQueue,
               bufferCall>>

\* for (uniformBuffer : uniformBuffers) destroyBuffer(device, uniformBuffer);

ShutdownDestroyUniformBuffers ==
  /\ pc = "shutdown_uniform_buffers"
  /\ DestroyHandles(UNION {destroyBuffer(frameRes.uniformBuffers[i]) :
                             i \in 1..Len(frameRes.uniformBuffers)})
  /\ Call("destroyBuffer")
  /\ Goto("shutdown_buffers")
  /\ UNCHANGED <<retpc, running, currentFrame, imageIndex,
               acquireNextImageResult, queuePresentResult,
               numSwapChainImages, swapChainSupportDetails, swapChain,
               swapChainImageViews, swapChainFramebuffers, renderPass,
               graphicsPipeline, viewport, scissor, frameRes, cmdRecorded,
               updWidth, updHeight, created, gen, nextImage,
               renderPassCreateInfo, createdFormat, fenceSignaled,
               semSignaled, graphicsQueue, presentQueue, imageAcquired,
               acquirePending, window, frameOps, failed, hazardWrites,
               sinceSubmit, staleBudget, queueFamilyProperties,
               queueFamilyIndices, queueMap, queueCreateInfos,
               obtainedQueueCounters, queues, physicalDevices,
               physicalDevice, supportFormats, supportPresentModes,
               swapChainCreateInfo, memProperties, buffers, transferQueue,
               bufferCall>>

\* (variant: the staging buffers are forgotten)
StagingBuffers_None == {}

\* The two staging buffers kept since the upload.
StagingBuffers == {indexStagingBuffer, vertexStagingBuffer}

\* destroyBuffer(indexBuffer / indexStagingBuffer / vertexStagingBuffer /
\*               vertexBuffer)

ShutdownDestroyBuffers ==
  /\ pc = "shutdown_buffers"
  /\ DestroyHandles(UNION {destroyBuffer(b) :
                             b \in {indexBuffer, vertexBuffer}
                                     \cup StagingBuffers})
  /\ buffers' =
       [name \in DOMAIN buffers |->
          IF buffers[name].Buffer \in {indexBuffer, vertexBuffer}
                                        \cup StagingBuffers
          THEN AfterDestroyBuffer(buffers[name]) ELSE buffers[name]]
  /\ Call("destroyBuffer")
  /\ Goto("shutdown_cmd_pools")
  /\ UNCHANGED <<retpc, running, currentFrame, imageIndex,
               acquireNextImageResult, queuePresentResult,
               numSwapChainImages, swapChainSupportDetails, swapChain,
               swapChainImageViews, swapChainFramebuffers, renderPass,
               graphicsPipeline, viewport, scissor, frameRes, cmdRecorded,
               updWidth, updHeight, created, gen, nextImage,
               renderPassCreateInfo, createdFormat, fenceSignaled,
               semSignaled, graphicsQueue, presentQueue, imageAcquired,
               acquirePending, window, frameOps, failed, hazardWrites,
               sinceSubmit, staleBudget, queueFamilyProperties,
               queueFamilyIndices, queueMap, queueCreateInfos,
               obtainedQueueCounters, queues, physicalDevices,
               physicalDevice, supportFormats, supportPresentModes,
               swapChainCreateInfo, memProperties, transferQueue, bufferCall>>

\* vkDestroyCommandPool(transferCmdPool); vkDestroyCommandPool(graphicsCmdPool)

ShutdownDestroyCommandPools ==
  /\ pc = "shutdown_cmd_pools"
  /\ DestroyHandles({transferCmdPool, graphicsCmdPool})
  /\ Call("vkDestroyCommandPool")
  /\ Goto("shutdown_framebuffers")
  /\ UNCHANGED <<retpc, running, currentFrame, imageIndex,
               acquireNextImageResult, queuePresentResult,
               numSwapChainImages, swapChainSupportDetails, swapChain,
               swapChainImageViews, swapChainFramebuffers, renderPass,
               graphicsPipeline, viewport, scissor, frameRes, cmdRecorded,
               updWidth, updHeight, created, gen, nextImage,
               renderPassCreateInfo, createdFormat, fenceSignaled,
               semSignaled, graphicsQueue, presentQueue, imageAcquired,
               acquirePending, window, frameOps, failed, hazardWrites,
               sinceSubmit, staleBudget, queueFamilyProperties,
               queueFamilyIndices, queueMap, queueCreateInfos,
               obtainedQueueCounters, queues, physicalDevices,
               physicalDevice, supportFormats, supportPresentModes,
               swapChainCreateInfo, memProperties, buffers, transferQueue,
               bufferCall>>

\* for (fb : swapChainFramebuffers) vkDestroyFramebuffer(device, fb, nullptr)

ShutdownDestroyFramebuffers ==
  /\ pc = "shutdown_framebuffers"
  /\ DestroyHandles(SeqToSet(swapChainFramebuffers))
  /\ Call("vkDestroyFramebuffer")
  /\ Goto("shutdown_pipeline")
  /\ UNCHANGED <<retpc, running, currentFrame, imageIndex,
               acquireNextImageResult, queuePresentResult,
               numSwapChainImages, swapChainSupportDetails, swapChain,
               swapChainImageViews, swapChainFramebuffers, renderPass,
               graphicsPipeline, viewport, scissor, frameRes, cmdRecorded,
               updWidth, updHeight, created, gen, nextImage,
               renderPassCreateInfo, createdFormat, fenceSignaled,
               semSignaled, graphicsQueue, presentQueue, imageAcquired,
               acquirePending, window, frameOps, failed, hazardWrites,
               sinceSubmit, staleBudget, queueFamilyProperties,
               queueFamilyIndices, queueMap, queueCreateInfos,
               obtainedQueueCounters, queues, physicalDevices,
               physicalDevice, supportFormats, supportPresentModes,
               swapChainCreateInfo, memProperties, buffers, transferQueue,
               bufferCall>>

\* (variant: the pipeline is not destroyed before the render pass)
ShutdownPipeline_None == {}

\* The pipeline vkDestroyPipeline is given at shutdown.
ShutdownPipeline == {graphicsPipeline}

\* vkDestroyPipeline(device, graphicsPipeline, nullptr);

ShutdownDestroyPipeline ==
  /\ pc = "shutdown_pipeline"
  /\ DestroyHandles(ShutdownPipeline)
  /\ Call("vkDestroyPipeline")
  /\ Goto("shutdown_render_pass")
  /\ UNCHANGED <<retpc, running, currentFrame, imageIndex,
               acquireNextImageResult, queuePresentResult,
               numSwapChainImages, swapChainSupportDetails, swapChain,
               swapChainImageViews, swapChainFramebuffers, renderPass,
               graphicsPipeline, viewport, scissor, frameRes, cmdRecorded,
               updWidth, updHeight, created, gen, nextImage,
               renderPassCreateInfo, createdFormat, fenceSignaled,
               semSignaled, graphicsQueue, presentQueue, imageAcquired,
               acquirePending, window, frameOps, failed, hazardWrites,
               sinceSubmit, staleBudget, queueFamilyProperties,
               queueFamilyIndices, queueMap, queueCreateInfos,
               obtainedQueueCounters, queues, physicalDevices,
               physicalDevice, supportFormats, supportPresentModes,
               swapChainCreateInfo, memProperties, buffers, transferQueue,
               bufferCall>>

\* vkDestroyRenderPass(device, renderPass, nullptr);

ShutdownDestroyRenderPass ==
  /\ pc = "shutdown_render_pass"
  /\ DestroyHandles({renderPass})
  /\ Call("vkDestroyRenderPass")
  /\ Goto("shutdown_pipeline_layout")
  /\ UNCHANGED <<retpc, running, currentFrame, imageIndex,
               acquireNextImageResult, queuePresentResult,
               numSwapChainImages, swapChainSupportDetails, swapChain,
               swapChainImageViews, swapChainFramebuffers, renderPass,
               graphicsPipeline, viewport, scissor, frameRes, cmdRecorded,
               updWidth, updHeight, created, gen, nextImage,
               renderPassCreateInfo, createdFormat, fenceSignaled,
               semSignaled, graphicsQueue, presentQueue, imageAcquired,
               acquirePending, window, frameOps, failed, hazardWrites,
               sinceSubmit, staleBudget, queueFamilyProperties,
               queueFamilyIndices, queueMap, queueCreateInfos,
               obtainedQueueCounters, queues, physicalDevices,
               physicalDevice, supportFormats, supportPresentModes,
               swapChainCreateInfo, memProperties, buffers, transferQueue,
               bufferCall>>

\* vkDestroyPipelineLayout(device, pipelineLayout, nullptr);

ShutdownDestroyPipelineLayout ==
  /\ pc = "shutdown_pipeline_layout"
  /\ DestroyHandles({pipelineLayout})
  /\ Call("vkDestroyPipelineLayout")
  /\ Goto("shutdown_set_layout")
  /\ UNCHANGED <<retpc, running, currentFrame, imageIndex,
               acquireNextImageResult, queuePresentResult,
               numSwapChainImages, swapChainSupportDetails, swapChain,
               swapChainImageViews, swapChainFramebuffers, renderPass,
               graphicsPipeline, viewport, scissor, frameRes, cmdRecorded,
               updWidth, updHeight, created, gen, nextImage,
               renderPassCreateInfo, createdFormat, fenceSignaled,
               semSignaled, graphicsQueue, presentQueue, imageAcquired,
               acquirePending, window, frameOps, failed, hazardWrites,
               sinceSubmit, staleBudget, queueFamilyProperties,
               queueFamilyIndices, queueMap, queueCreateInfos,
               obtainedQueueCounters, queues, physicalDevices,
               physicalDevice, supportFormats, supportPresentModes,
               swapChainCreateInfo, memProperties, buffers, transferQueue,
               bufferCall>>

\* vkDestroyDescriptorSetLayout(device, descriptorSetLayout, nullptr);

ShutdownDestroyDescriptorSetLayout ==
  /\ pc = "shutdown_set_layout"
  /\ DestroyHandles({descriptorSetLayout})
  /\ Call("vkDestroyDescriptorSetLayout")
  /\ Goto("shutdown_shaders")
  /\ UNCHANGED <<retpc, running, currentFrame, imageIndex,
               acquireNextImageResult, queuePresentResult,
               numSwapChainImages, swapChainSupportDetails, swapChain,
               swapChainImageViews, swapChainFramebuffers, renderPass,
               graphicsPipeline, viewport, scissor, frameRes, cmdRecorded,
               updWidth, updHeight, created, gen, nextImage,
               renderPassCreateInfo, createdFormat, fenceSignaled,
               semSignaled, graphicsQueue, presentQueue, imageAcquired,
               acquirePending, window, frameOps, failed, hazardWrites,
               sinceSubmit, staleBudget, queueFamilyProperties,
               queueFamilyIndices, queueMap, queueCreateInfos,
               obtainedQueueCounters, queues, physicalDevices,
               physicalDevice, supportFormats, supportPresentModes,
               swapChainCreateInfo, memProperties, buffers, transferQueue,
               bufferCall>>

\* vkDestroyShaderModule(testVertShaderModule / testFragShaderModule)

ShutdownDestroyShaderModules ==
  /\ pc = "shutdown_shaders"
  /\ DestroyHandles({testVertShaderModule, testFragShaderModule})
  /\ Call("vkDestroyShaderModule")
  /\ Goto("shutdown_image_views")
  /\ UNCHANGED <<retpc, running, currentFrame, imageIndex,
               acquireNextImageResult, queuePresentResult,
               numSwapChainImages, swapChainSupportDetails, swapChain,
               swapChainImageViews, swapChainFramebuffers, renderPass,
               graphicsPipeline, viewport, scissor, frameRes, cmdRecorded,
               updWidth, updHeight, created, gen, nextImage,
               renderPassCreateInfo, createdFormat, fenceSignaled,
               semSignaled, graphicsQueue, presentQueue, imageAcquired,
               acquirePending, window, frameOps, failed, hazardWrites,
               sinceSubmit, staleBudget, queueFamilyProperties,
               queueFamilyIndices, queueMap, queueCreateInfos,
               obtainedQueueCounters, queues, physicalDevices,
               physicalDevice, supportFormats, supportPresentModes,
               swapChainCreateInfo, memProperties, buffers, transferQueue,
               bufferCall>>

\* for (imageView : swapChainImageViews) vkDestroyImageView(...)

ShutdownDestroyImageViews ==
  /\ pc = "shutdown_image_views"
  /\ DestroyHandles(SeqToSet(swapChainImageViews))
  /\ Call("vkDestroyImageView")
  /\ Goto("shutdown_swapchain")
  /\ UNCHANGED <<retpc, running, currentFrame, imageIndex,
               acquireNextImageResult, queuePresentResult,
               numSwapChainImages, swapChainSupportDetails, swapChain,
               swapChainImageViews, swapChainFramebuffers, renderPass,
               graphicsPipeline, viewport, scissor, frameRes, cmdRecorded,
               updWidth, updHeight, created, gen, nextImage,
               renderPassCreateInfo, createdFormat, fenceSignaled,
               semSignaled, graphicsQueue, presentQueue, imageAcquired,
               acquirePending, window, frameOps, failed, hazardWrites,
               sinceSubmit, staleBudget, queueFamilyProperties,
               queueFamilyIndices, queueMap, queueCreateInfos,
               obtainedQueueCounters, queues, physicalDevices,
               physicalDevice, supportFormats, supportPresentModes,
               swapChainCreateInfo, memProperties, buffers, transferQueue,
               bufferCall>>

\* vkDestroySwapchainKHR(device, swapChain.Handle, nullptr);

ShutdownDestroySwapchain ==
  /\ pc = "shutdown_swapchain"
  /\ DestroyHandles({swapChain.Handle})
  /\ Call("vkDestroySwapchainKHR")
  /\ Goto("shutdown_device")
  /\ UNCHANGED <<retpc, running, currentFrame, imageIndex,
               acquireNextImageResult, queuePresentResult,
               numSwapChainImages, swapChainSupportDetails, swapChain,
               swapChainImageViews, swapChainFramebuffers, renderPass,
               graphicsPipeline, viewport, scissor, frameRes, cmdRecorded,
               updWidth, updHeight, created, gen, nextImage,
               renderPassCreateInfo, createdFormat, fenceSignaled,
               semSignaled, graphicsQueue, presentQueue, imageAcquired,
               acquirePending, window, frameOps, failed, hazardWrites,
               sinceSubmit, staleBudget, queueFamilyProperties,
               queueFamilyIndices, queueMap, queueCreateInfos,
               obtainedQueueCounters, queues, physicalDevices,
               physicalDevice, supportFormats, supportPresentModes,
               swapChainCreateInfo, memProperties, buffers, transferQueue,
               bufferCall>>

\* vkDestroyDevice(device, nullptr);

ShutdownDestroyDevice ==
  /\ pc = "shutdown_device"
  /\ DestroyHandles({device})
  /\ Call("vkDestroyDevice")
  /\ Goto("shutdown_surface")
  /\ UNCHANGED <<retpc, running, currentFrame, imageIndex,
               acquireNextImageResult, queuePresentResult,
               numSwapChainImages, swapChainSupportDetails, swapChain,
               swapChainImageViews, swapChainFramebuffers, renderPass,
               graphicsPipeline, viewport, scissor, frameRes, cmdRecorded,
               updWidth, updHeight, created, gen, nextImage,
               renderPassCreateInfo, createdFormat, fenceSignaled,
               semSignaled, graphicsQueue, presentQueue, imageAcquired,
               acquirePending, window, frameOps, failed, hazardWrites,
               sinceSubmit, staleBudget, queueFamilyProperties,
               queueFamilyIndices, queueMap, queueCreateInfos,
               obtainedQueueCounters, queues, physicalDevices,
               physicalDevice, supportFormats, supportPresentModes,
               swapChainCreateInfo, memProperties, buffers, transferQueue,
               bufferCall>>

\* vkDestroySurfaceKHR(instance, surface, nullptr);

ShutdownDestroySurface ==
  /\ pc = "shutdown_surface"
  /\ DestroyHandles({surface})
  /\ Call("vkDestroySurfaceKHR")
  /\ Goto("shutdown_messenger")
  /\ UNCHANGED <<retpc, running, currentFrame, imageIndex,
               acquireNextImageResult, queuePresentResult,
               numSwapChainImages, swapChainSupportDetails, swapChain,
               swapChainImageViews, swapChainFramebuffers, renderPass,
               graphicsPipeline, viewport, scissor, frameRes, cmdRecorded,
               updWidth, updHeight, created, gen, nextImage,
               renderPassCreateInfo, createdFormat, fenceSignaled,
               semSignaled, graphicsQueue, presentQueue, imageAcquired,
               acquirePending, window, frameOps, failed, hazardWrites,
               sinceSubmit, staleBudget, queueFamilyProperties,
               queueFamilyIndices, queueMap, queueCreateInfos,
               obtainedQueueCounters, queues, physicalDevices,
               physicalDevice, supportFormats, supportPresentModes,
               swapChainCreateInfo, memProperties, buffers, transferQueue,
               bufferCall>>

\* if (messenger != VK_NULL_HANDLE) vkDestroyDebugUtilsMessengerEXT(...)

ShutdownDestroyMessenger ==
  /\ pc = "shutdown_messenger"
  /\ IF messenger # VK_NULL_HANDLE
     THEN /\ DestroyHandles({messenger})
          /\ Call("vkDestroyDebugUtilsMessengerEXT")
     ELSE UNCHANGED <<live, badDestroy, destroyedInUse, log>>
  /\ Goto("shutdown_instance")
  /\ UNCHANGED <<retpc, running, currentFrame, imageIndex,
               acquireNextImageResult, queuePresentResult,
               numSwapChainImages, swapChainSupportDetails, swapChain,
               swapChainImageViews, swapChainFramebuffers, renderPass,
               graphicsPipeline, viewport, scissor, frameRes, cmdRecorded,
               updWidth, updHeight, created, gen, nextImage,
               renderPassCreateInfo, createdFormat, fenceSignaled,
               semSignaled, graphicsQueue, presentQueue, imageAcquired,
               acquirePending, window, frameOps, failed, hazardWrites,
               sinceSubmit, staleBudget, queueFamilyProperties,
               queueFamilyIndices, queueMap, queueCreateInfos,
               obtainedQueueCounters, queues, physicalDevices,
               physicalDevice, supportFormats, supportPresentModes,
               swapChainCreateInfo, memProperties, buffers, transferQueue,
               bufferCall>>

\* vkDestroyInstance(instance, nullptr);

ShutdownDestroyInstance ==
  /\ pc = "shutdown_instance"
  /\ DestroyHandles({instance})
  /\ Call("vkDestroyInstance")
  /\ Goto("done")
  /\ UNCHANGED <<retpc, running, currentFrame, imageIndex,
               acquireNextImageResult, queuePresentResult,
               numSwapChainImages, swapChainSupportDetails, swapChain,
               swapChainImageViews, swapChainFramebuffers, renderPass,
               graphicsPipeline, viewport, scissor, frameRes, cmdRecorded,
               updWidth, updHeight, created, gen, nextImage,
               renderPassCreateInfo, createdFormat, fenceSignaled,
               semSignaled, graphicsQueue, presentQueue, imageAcquired,
               acquirePending, window, frameOps, failed, hazardWrites,
               sinceSubmit, staleBudget, queueFamilyProperties,
               queueFamilyIndices, queueMap, queueCreateInfos,
               obtainedQueueCounters, queues, physicalDevices,
               physicalDevice, supportFormats, supportPresentModes,
               swapChainCreateInfo, memProperties, buffers, transferQueue,
               bufferCall>>

\* ------------------------------------------------------------------- GPU
\* The graphics queue executes its oldest submission: it consumes the wait
\* semaphore and signals the signal semaphore and the fence.

GpuExecute ==
  /\ graphicsQueue # <<>>
  /\ LET d == Head(graphicsQueue) IN
       /\ semSignaled.imageAvailable[IndexOf(d.wait)]
       /\ semSignaled' = [semSignaled EXCEPT
                            !.imageAvailable[IndexOf(d.wait)] = FALSE,
                            !.renderFinished[IndexOf(d.signal)] = TRUE]
       /\ fenceSignaled' = [fenceSignaled EXCEPT ![IndexOf(d.fence)] = TRUE]
  /\ graphicsQueue' = Tail(graphicsQueue)
  /\ UNCHANGED <<pc, retpc, running, currentFrame, imageIndex,
               acquireNextImageResult, queuePresentResult,
               numSwapChainImages, swapChainSupportDetails, swapChain,
               swapChainImageViews, swapChainFramebuffers, renderPass,
               graphicsPipeline, viewport, scissor, frameRes, cmdRecorded,
               updWidth, updHeight, live, created, gen, nextImage,
               renderPassCreateInfo, createdFormat, presentQueue,
               imageAcquired, acquirePending, window, log, frameOps, failed,
               badDestroy, destroyedInUse, hazardWrites, sinceSubmit,
               staleBudget, queueFamilyProperties, queueFamilyIndices,
               queueMap, queueCreateInfos, obtainedQueueCounters, queues,
               physicalDevices, physicalDevice, supportFormats,
               supportPresentModes, swapChainCreateInfo, memProperties,
               buffers, transferQueue, bufferCall>>

\* The present queue executes its oldest present: it consumes the wait
\* semaphore; once the engine is done with the image, an acquire that
\* handed the image out early has its semaphore signaled.

GpuPresent ==
  /\ presentQueue # <<>>
  /\ LET p == Head(presentQueue)
         hit == {a \in acquirePending :
                   p.swapchain = swapChain.Handle /\ a.image = p.image}
         ready == {a \in hit : a.remaining = 1}
     IN
       /\ semSignaled.renderFinished[IndexOf(p.wait)]
       /\ acquirePending' =
            (acquirePending \ hit) \cup
              {[a EXCEPT !.remaining = @ - 1] : a \in hit \ ready}
       /\ semSignaled' =
            [renderFinished |->
               [semSignaled.renderFinished EXCEPT
                  ![IndexOf(p.wait)] = FALSE],
             imageAvailable |->
               [s \in 1..Len(semSignaled.imageAvailable) |->
                  IF \E a \in ready : IndexOf(a.semaphore) = s
                  THEN TRUE
                  ELSE semSignaled.imageAvailable[s]]]
  /\ presentQueue' = Tail(presentQueue)
  /\ UNCHANGED <<pc, retpc, running, currentFrame, imageIndex,
               acquireNextImageResult, queuePresentResult,
               numSwapChainImages, swapChainSupportDetails, swapChain,
               swapChainImageViews, swapChainFramebuffers, renderPass,
               graphicsPipeline, viewport, scissor, frameRes, cmdRecorded,
               updWidth, updHeight, live, created, gen, nextImage,
               renderPassCreateInfo, createdFormat, fenceSignaled,
               graphicsQueue, imageAcquired, window, log, frameOps, failed,
               badDestroy, destroyedInUse, hazardWrites, sinceSubmit,
               staleBudget, queueFamilyProperties, queueFamilyIndices,
               queueMap, queueCreateInfos, obtainedQueueCounters, queues,
               physicalDevices, physicalDevice, supportFormats,
               supportPresentModes, swapChainCreateInfo, memProperties,
               buffers, transferQueue, bufferCall>>

\* --------------------------------------------------------- window system

WindowMinimize ==
  /\ pc # "done"
  /\ ~window.minimized
  /\ window' = [window EXCEPT !.minimized = TRUE]
  /\ UNCHANGED <<pc, retpc, running, currentFrame, imageIndex,
               acquireNextImageResult, queuePresentResult,
               numSwapChainImages, swapChainSupportDetails, swapChain,
               swapChainImageViews, swapChainFramebuffers, renderPass,
               graphicsPipeline, viewport, scissor, frameRes, cmdRecorded,
               updWidth, updHeight, live, created, gen, nextImage,
               renderPassCreateInfo, createdFormat, fenceSignaled,
               semSignaled, graphicsQueue, presentQueue, imageAcquired,
               acquirePending, log, frameOps, failed, badDestroy,
               destroyedInUse, hazardWrites, sinceSubmit, staleBudget,
               queueFamilyProperties, queueFamilyIndices, queueMap,
               queueCreateInfos, obtainedQueueCounters, queues,
               physicalDevices, physicalDevice, supportFormats,
               supportPresentModes, swapChainCreateInfo, memProperties,
               buffers, transferQueue, bufferCall>>

WindowRestore ==
  /\ pc # "done"
  /\ window.minimized
  /\ window' = [window EXCEPT !.minimized = FALSE]
  /\ UNCHANGED <<pc, retpc, running, currentFrame, imageIndex,
               acquireNextImageResult, queuePresentResult,
               numSwapChainImages, swapChainSupportDetails, swapChain,
               swapChainImageViews, swapChainFramebuffers, renderPass,
               graphicsPipeline, viewport, scissor, frameRes, cmdRecorded,
               updWidth, updHeight, live, created, gen, nextImage,
               renderPassCreateInfo, createdFormat, fenceSignaled,
               semSignaled, graphicsQueue, presentQueue, imageAcquired,
               acquirePending, log, frameOps, failed, badDestroy,
               destroyedInUse, hazardWrites, sinceSubmit, staleBudget,
               queueFamilyProperties, queueFamilyIndices, queueMap,
               queueCreateInfos, obtainedQueueCounters, queues,
               physicalDevices, physicalDevice, supportFormats,
               supportPresentModes, swapChainCreateInfo, memProperties,
               buffers, transferQueue, bufferCall>>

\* The user drags the window border: the client area gets another size.

WindowResize ==
  /\ pc # "done"
  /\ ~window.minimized
  /\ \E s \in WindowSizes \ {window.size} : window' = [window EXCEPT !.size = s]
  /\ UNCHANGED <<pc, retpc, running, currentFrame, imageIndex,
               acquireNextImageResult, queuePresentResult,
               numSwapChainImages, swapChainSupportDetails, swapChain,
               swapChainImageViews, swapChainFramebuffers, renderPass,
               graphicsPipeline, viewport, scissor, frameRes, cmdRecorded,
               updWidth, updHeight, live, created, gen, nextImage,
               renderPassCreateInfo, createdFormat, fenceSignaled,
               semSignaled, graphicsQueue, presentQueue, imageAcquired,
               acquirePending, log, frameOps, failed, badDestroy,
               destroyedInUse, hazardWrites, sinceSubmit, staleBudget,
               queueFamilyProperties, queueFamilyIndices, queueMap,
               queueCreateInfos, obtainedQueueCounters, queues,
               physicalDevices, physicalDevice, supportFormats,
               supportPresentModes, swapChainCreateInfo, memProperties,
               buffers, transferQueue, bufferCall>>

\* --------------------------------------------------------------- startup
\* checkPhysicalDevice calls getQueueFamily: the first loop ...

GetQueueFamilyPass1 ==
  /\ pc = "get_queue_family"
  /\ queueFamilyIndices' = Pass1(queueFamilyProperties, NoIndices, 0)
  /\ Goto("get_queue_family_pass2")
  /\ UNCHANGED <<retpc, running, currentFrame, imageIndex,
               acquireNextImageResult, queuePresentResult,
               numSwapChainImages, swapChainSupportDetails, swapChain,
               swapChainImageViews, swapChainFramebuffers, renderPass,
               graphicsPipeline, viewport, scissor, frameRes, cmdRecorded,
               updWidth, updHeight, live, created, gen, nextImage,
               renderPassCreateInfo, createdFormat, fenceSignaled,
               semSignaled, graphicsQueue, presentQueue, imageAcquired,
               acquirePending, window, log, frameOps, failed, badDestroy,
               destroyedInUse, hazardWrites, sinceSubmit, staleBudget,
               queueFamilyProperties, queueMap, queueCreateInfos,
               obtainedQueueCounters, queues, physicalDevices,
               physicalDevice, supportFormats, supportPresentModes,
               swapChainCreateInfo, memProperties, buffers, transferQueue,
               bufferCall>>

\* ... and the second one, if the first left a role unset.

GetQueueFamilyPass2 ==
  /\ pc = "get_queue_family_pass2"
  /\ queueFamilyIndices' = Pass2(queueFamilyProperties, queueFamilyIndices)
  /\ Goto("check_physical_device")
  /\ UNCHANGED <<retpc, running, currentFrame, imageIndex,
               acquireNextImageResult, queuePresentResult,
               numSwapChainImages, swapChainSupportDetails, swapChain,
               swapChainImageViews, swapChainFramebuffers, renderPass,
               graphicsPipeline, viewport, scissor, frameRes, cmdRecorded,
               updWidth, updHeight, live, created, gen, nextImage,
               renderPassCreateInfo, createdFormat, fenceSignaled,
               semSignaled, graphicsQueue, presentQueue, imageAcquired,
               acquirePending, window, log, frameOps, failed, badDestroy,
               destroyedInUse, hazardWrites, sinceSubmit, staleBudget,
               queueFamilyProperties, queueMap, queueCreateInfos,
               obtainedQueueCounters, queues, physicalDevices,
               physicalDevice, supportFormats, supportPresentModes,
               swapChainCreateInfo, memProperties, buffers, transferQueue,
               bufferCall>>

\* isQueueComplete decides whether the device is taken; with no device
\* taken BB_ASSERT(physicalDevice != VK_NULL_HANDLE) stops the program.

CheckPhysicalDevice ==
  /\ pc = "check_physical_device"
  /\ Goto(IF isCompleted(queueFamilyIndices) THEN "count_queues"
          ELSE "abort")
  /\ UNCHANGED <<retpc, running, currentFrame, imageIndex,
               acquireNextImageResult, queuePresentResult,
               numSwapChainImages, swapChainSupportDetails, swapChain,
               swapChainImageViews, swapChainFramebuffers, renderPass,
               graphicsPipeline, viewport, scissor, frameRes, cmdRecorded,
               updWidth, updHeight, live, created, gen, nextImage,
               renderPassCreateInfo, createdFormat, fenceSignaled,
               semSignaled, graphicsQueue, presentQueue, imageAcquired,
               acquirePending, window, log, frameOps, failed, badDestroy,
               destroyedInUse, hazardWrites, sinceSubmit, staleBudget,
               queueFamilyProperties, queueFamilyIndices, queueMap,
               queueCreateInfos, obtainedQueueCounters, queues,
               physicalDevices, physicalDevice, supportFormats,
               supportPresentModes, swapChainCreateInfo, memProperties,
               buffers, transferQueue, bufferCall>>

\* The four calls of incrementNumQueues fill queueMap.

CountDeviceQueues ==
  /\ pc = "count_queues"
  /\ queueMap' = CountQueues(queueFamilyIndices)
  /\ Goto("create_device")
  /\ UNCHANGED <<retpc, running, currentFrame, imageIndex,
               acquireNextImageResult, queuePresentResult,
               numSwapChainImages, swapChainSupportDetails, swapChain,
               swapChainImageViews, swapChainFramebuffers, renderPass,
               graphicsPipeline, viewport, scissor, frameRes, cmdRecorded,
               updWidth, updHeight, live, created, gen, nextImage,
               renderPassCreateInfo, createdFormat, fenceSignaled,
               semSignaled, graphicsQueue, presentQueue, imageAcquired,
               acquirePending, window, log, frameOps, failed, badDestroy,
               destroyedInUse, hazardWrites, sinceSubmit, staleBudget,
               queueFamilyProperties, queueFamilyIndices, queueCreateInfos,
               obtainedQueueCounters, queues, physicalDevices,
               physicalDevice, supportFormats, supportPresentModes,
               swapChainCreateInfo, memProperties, buffers, transferQueue,
               bufferCall>>

\* One VkDeviceQueueCreateInfo per entry of queueMap, then vkCreateDevice.

CreateDevice ==
  /\ pc = "create_device"
  /\ queueCreateInfos' = QueueCreateInfos(queueMap, DOMAIN queueMap)
  /\ obtainedQueueCounters' = [f \in DOMAIN queueMap |-> 0]
  /\ CreateHandles({device})
  /\ Goto("get_device_queue")
  /\ UNCHANGED <<retpc, running, currentFrame, imageIndex,
               acquireNextImageResult, queuePresentResult,
               numSwapChainImages, swapChainSupportDetails, swapChain,
               swapChainImageViews, swapChainFramebuffers, renderPass,
               graphicsPipeline, viewport, scissor, frameRes, cmdRecorded,
               updWidth, updHeight, gen, nextImage, renderPassCreateInfo,
               createdFormat, fenceSignaled, semSignaled, graphicsQueue,
               presentQueue, imageAcquired, acquirePending, window, log,
               frameOps, failed, badDestroy, destroyedInUse, hazardWrites,
               sinceSubmit, staleBudget, queueFamilyProperties,
               queueFamilyIndices, queueMap, queues, physicalDevices,
               physicalDevice, supportFormats, supportPresentModes,
               swapChainCreateInfo, memProperties, buffers, transferQueue,
               bufferCall>>

\* The four vkGetDeviceQueue calls, one per step, in the order of FetchOrder.

FetchDeviceQueue ==
  /\ pc = "get_device_queue"
  /\ LET n  == Cardinality(DOMAIN queues) + 1
         st == GetDeviceQueue(queueFamilyIndices,
                              [counters |-> obtainedQueueCounters,
                               queues |-> queues],
                              FetchOrder[n])
     IN /\ obtainedQueueCounters' = st.counters
        /\ queues' = st.queues
        /\ Goto(IF n = Len(FetchOrder) THEN "device_ready"
                ELSE "get_device_queue")
  /\ UNCHANGED <<retpc, running, currentFrame, imageIndex,
               acquireNextImageResult, queuePresentResult,
               numSwapChainImages, swapChainSupportDetails, swapChain,
               swapChainImageViews, swapChainFramebuffers, renderPass,
               graphicsPipeline, viewport, scissor, frameRes, cmdRecorded,
               updWidth, updHeight, live, created, gen, nextImage,
               renderPassCreateInfo, createdFormat, fenceSignaled,
               semSignaled, graphicsQueue, presentQueue, imageAcquired,
               acquirePending, window, log, frameOps, failed, badDestroy,
               destroyedInUse, hazardWrites, sinceSubmit, staleBudget,
               queueFamilyProperties, queueFamilyIndices, queueMap,
               queueCreateInfos, physicalDevices, physicalDevice,
               supportFormats, supportPresentModes, swapChainCreateInfo,
               memProperties, buffers, transferQueue, bufferCall>>

Startup ==
  \/ GetQueueFamilyPass1 \/ GetQueueFamilyPass2 \/ CheckPhysicalDevice
  \/ CountDeviceQueues \/ CreateDevice \/ FetchDeviceQueue

\* The loop of main over the physical devices, then
\* BB_ASSERT(physicalDevice != VK_NULL_HANDLE).

SelectDevice ==
  /\ pc = "select_device"
  /\ LET got == SelectPhysicalDevice(physicalDevices, 1, NoDetails) IN
       /\ physicalDevice' = got.physicalDevice
       /\ queueFamilyIndices' = got.out.queueFamilyIndices
       /\ supportFormats' = got.out.Formats
       /\ supportPresentModes' = got.out.PresentModes
       /\ Goto(IF got.physicalDevice # VK_NULL_HANDLE THEN "count_queues"
               ELSE "abort")
  /\ UNCHANGED <<retpc, running, currentFrame, imageIndex,
               acquireNextImageResult, queuePresentResult,
               numSwapChainImages, swapChainSupportDetails, swapChain,
               swapChainImageViews, swapChainFramebuffers, renderPass,
               graphicsPipeline, viewport, scissor, frameRes, cmdRecorded,
               updWidth, updHeight, live, created, gen, nextImage,
               renderPassCreateInfo, createdFormat, fenceSignaled,
               semSignaled, graphicsQueue, presentQueue, imageAcquired,
               acquirePending, window, log, frameOps, failed, badDestroy,
               destroyedInUse, hazardWrites, sinceSubmit, staleBudget,
               queueFamilyProperties, queueMap, queueCreateInfos,
               obtainedQueueCounters, queues, physicalDevices,
               swapChainCreateInfo, memProperties, buffers, transferQueue,
               bufferCall>>

\* createSwapChain(device, surface, swapChainSupportDetails, width, height,
\*                 queueFamilyIndices)

CreateSwapChain ==
  /\ pc = "create_swapchain"
  /\ gen' = gen + 1
  /\ swapChain' =
       createSwapChain(swapChainSupportDetails, updWidth, updHeight, gen + 1)
  /\ swapChainCreateInfo' =
       SwapChainCreateInfo(swapChainSupportDetails, supportFormats,
                           supportPresentModes, updWidth, updHeight)
  /\ CreateHandles({swapChain'.Handle})
  /\ Call("vkCreateSwapchainKHR")
  /\ Goto("swapchain_created")
  /\ UNCHANGED <<retpc, running, currentFrame, imageIndex,
               acquireNextImageResult, queuePresentResult,
               numSwapChainImages, swapChainSupportDetails,
               swapChainImageViews, swapChainFramebuffers, renderPass,
               graphicsPipeline, viewport, scissor, frameRes, cmdRecorded,
               updWidth, updHeight, nextImage, renderPassCreateInfo,
               createdFormat, fenceSignaled, semSignaled, graphicsQueue,
               presentQueue, imageAcquired, acquirePending, window, frameOps,
               failed, badDestroy, destroyedInUse, hazardWrites, sinceSubmit,
               staleBudget, queueFamilyProperties, queueFamilyIndices,
               queueMap, queueCreateInfos, obtainedQueueCounters, queues,
               physicalDevices, physicalDevice, supportFormats,
               supportPresentModes, memProperties, buffers, transferQueue,
               bufferCall>>

\* ---------------------------------------------------------------- buffers
\* The helper main is in, with its arguments and locals.
Calling(call) == bufferCall' = call
\* Handles of a kind created so far.
CreatedOf(kind) == {h \in created : KindOf(h) = kind}
HelperCalls == Cardinality({h \in created : KindOf(h) \in DOMAIN buffers
                                              \/ KindOf(h) = "copyCmdBuffer"})

\* createBuffer for the struct `name`: vkCreateBuffer, the memory type bits
\* the device reports for the buffer, findMemoryType, vkAllocateMemory,
\* vkBindBufferMemory.  When findMemoryType reaches BB_ASSERT(false) the
\* program stops with the buffer created and nothing returned.

CreateBuffer ==
  /\ pc = "buffers"
  /\ HelperCalls < MaxBufferCalls
  /\ \E name \in DOMAIN buffers,
        memoryTypeBits \in (SUBSET (0..(Len(memProperties) - 1))) \ {{}},
        properties \in RequestedProperties :
       LET result == NewBuffer(name, Cardinality(CreatedOf(name)) + 1)
           memoryTypeIndex ==
             findMemoryType(memProperties, memoryTypeBits, properties)
       IN /\ buffers[name] = NullBuffer
          /\ Calling([op |-> "createBuffer", name |-> name,
                      memoryTypeBits |-> memoryTypeBits,
                      properties |-> properties,
                      memoryTypeIndex |-> memoryTypeIndex])
          /\ IF memoryTypeIndex = NoMemoryType
             THEN /\ CreateHandles({result.Buffer})
                  /\ UNCHANGED buffers
                  /\ Goto("abort")
             ELSE /\ CreateHandles({result.Buffer, result.Memory})
                  /\ buffers' = [buffers EXCEPT ![name] = result]
                  /\ Goto("buffers")
  /\ UNCHANGED <<retpc, running, currentFrame, imageIndex,
               acquireNextImageResult, queuePresentResult,
               numSwapChainImages, swapChainSupportDetails, swapChain,
               swapChainImageViews, swapChainFramebuffers, renderPass,
               graphicsPipeline, viewport, scissor, frameRes, cmdRecorded,
               updWidth, updHeight, gen, nextImage, renderPassCreateInfo,
               createdFormat, fenceSignaled, semSignaled, graphicsQueue,
               presentQueue, imageAcquired, acquirePending, window, log,
               frameOps, failed, badDestroy, destroyedInUse, hazardWrites,
               sinceSubmit, staleBudget, queueFamilyProperties,
               queueFamilyIndices, queueMap, queueCreateInfos,
               obtainedQueueCounters, queues, physicalDevices,
               physicalDevice, supportFormats, supportPresentModes,
               swapChainCreateInfo, memProperties, transferQueue>>

\* destroyBuffer(device, buffer) on the struct `name`, whatever it holds.

DestroyBuffer ==
  /\ pc = "buffers"
  /\ \E name \in DOMAIN buffers :
       /\ Calling([op |-> "destroyBuffer", name |-> name,
                   released |-> ReleasedBy(buffers[name])])
       /\ DestroyHandles(ReleasedBy(buffers[name]))
       /\ buffers' = [buffers EXCEPT ![name] = AfterDestroyBuffer(@)]
  /\ Goto("buffers")
  /\ UNCHANGED <<retpc, running, currentFrame, imageIndex,
               acquireNextImageResult, queuePresentResult,
               numSwapChainImages, swapChainSupportDetails, swapChain,
               swapChainImageViews, swapChainFramebuffers, renderPass,
               graphicsPipeline, viewport, scissor, frameRes, cmdRecorded,
               updWidth, updHeight, created, gen, nextImage,
               renderPassCreateInfo, createdFormat, fenceSignaled,
               semSignaled, graphicsQueue, presentQueue, imageAcquired,
               acquirePending, window, log, frameOps, failed, hazardWrites,
               sinceSubmit, staleBudget, queueFamilyProperties,
               queueFamilyIndices, queueMap, queueCreateInfos,
               obtainedQueueCounters, queues, physicalDevices,
               physicalDevice, supportFormats, supportPresentModes,
               swapChainCreateInfo, memProperties, transferQueue>>

\* copyBuffer(device, cmdPool, queue, dst, src, size):
\* vkAllocateCommandBuffers of one command buffer ...

CopyAllocate ==
  /\ pc = "buffers"
  /\ HelperCalls < MaxBufferCalls
  /\ \E dst, src \in DOMAIN buffers :
       /\ dst # src
       /\ buffers[dst] # NullBuffer /\ buffers[src] # NullBuffer
       /\ LET cmdBuffer ==
                Handle("copyCmdBuffer",
                       Cardinality(CreatedOf("copyCmdBuffer")) + 1, 0)
          IN /\ Calling([op |-> "copyBuffer", dst |-> dst, src |-> src,
                         cmdBuffer |-> cmdBuffer, commands |-> <<>>])
             /\ CreateHandles({cmdBuffer})
  /\ Goto("copy_record")
  /\ UNCHANGED <<retpc, running, currentFrame, imageIndex,
               acquireNextImageResult, queuePresentResult,
               numSwapChainImages, swapChainSupportDetails, swapChain,
               swapChainImageViews, swapChainFramebuffers, renderPass,
               graphicsPipeline, viewport, scissor, frameRes, cmdRecorded,
               updWidth, updHeight, gen, nextImage, renderPassCreateInfo,
               createdFormat, fenceSignaled, semSignaled, graphicsQueue,
               presentQueue, imageAcquired, acquirePending, window, log,
               frameOps, failed, badDestroy, destroyedInUse, hazardWrites,
               sinceSubmit, staleBudget, queueFamilyProperties,
               queueFamilyIndices, queueMap, queueCreateInfos,
               obtainedQueueCounters, queues, physicalDevices,
               physicalDevice, supportFormats, supportPresentModes,
               swapChainCreateInfo, memProperties, buffers, transferQueue>>

\* ... vkBeginCommandBuffer, vkCmdCopyBuffer with one region,
\* vkEndCommandBuffer ...

CopyRecord ==
  /\ pc = "copy_record"
  /\ Calling([bufferCall EXCEPT
                !.commands = Append(@, [src |-> buffers[bufferCall.src].Buffer,
                                        dst |-> buffers[bufferCall.dst].Buffer,
                                        regionCount |-> 1])])
  /\ Goto("copy_submit")
  /\ UNCHANGED <<retpc, running, currentFrame, imageIndex,
               acquireNextImageResult, queuePresentResult,
               numSwapChainImages, swapChainSupportDetails, swapChain,
               swapChainImageViews, swapChainFramebuffers, renderPass,
               graphicsPipeline, viewport, scissor, frameRes, cmdRecorded,
               updWidth, updHeight, live, created, gen, nextImage,
               renderPassCreateInfo, createdFormat, fenceSignaled,
               semSignaled, graphicsQueue, presentQueue, imageAcquired,
               acquirePending, window, log, frameOps, failed, badDestroy,
               destroyedInUse, hazardWrites, sinceSubmit, staleBudget,
               queueFamilyProperties, queueFamilyIndices, queueMap,
               queueCreateInfos, obtainedQueueCounters, queues,
               physicalDevices, physicalDevice, supportFormats,
               supportPresentModes, swapChainCreateInfo, memProperties,
               buffers, transferQueue>>

\* ... vkQueueSubmit(_queue, 1, &submitInfo, VK_NULL_HANDLE) ...

CopySubmit ==
  /\ pc = "copy_submit"
  /\ transferQueue' = Append(transferQueue,
                             [cmdBuffer |-> bufferCall.cmdBuffer,
                              commands |-> bufferCall.commands])
  /\ Goto("copy_wait_idle")
  /\ UNCHANGED <<retpc, running, currentFrame, imageIndex,
               acquireNextImageResult, queuePresentResult,
               numSwapChainImages, swapChainSupportDetails, swapChain,
               swapChainImageViews, swapChainFramebuffers, renderPass,
               graphicsPipeline, viewport, scissor, frameRes, cmdRecorded,
               updWidth, updHeight, live, created, gen, nextImage,
               renderPassCreateInfo, createdFormat, fenceSignaled,
               semSignaled, graphicsQueue, presentQueue, imageAcquired,
               acquirePending, window, log, frameOps, failed, badDestroy,
               destroyedInUse, hazardWrites, sinceSubmit, staleBudget,
               queueFamilyProperties, queueFamilyIndices, queueMap,
               queueCreateInfos, obtainedQueueCounters, queues,
               physicalDevices, physicalDevice, supportFormats,
               supportPresentModes, swapChainCreateInfo, memProperties,
               buffers, bufferCall>>

\* ... vkQueueWaitIdle(_queue) returns when the queue has nothing pending ...
TransferQueueIdle_NoWait == TRUE
TransferQueueIdle == transferQueue = <<>>

CopyWaitIdle ==
  /\ pc = "copy_wait_idle"
  /\ TransferQueueIdle
  /\ Goto("copy_free")
  /\ UNCHANGED <<retpc, running, currentFrame, imageIndex,
               acquireNextImageResult, queuePresentResult,
               numSwapChainImages, swapChainSupportDetails, swapChain,
               swapChainImageViews, swapChainFramebuffers, renderPass,
               graphicsPipeline, viewport, scissor, frameRes, cmdRecorded,
               updWidth, updHeight, live, created, gen, nextImage,
               renderPassCreateInfo, createdFormat, fenceSignaled,
               semSignaled, graphicsQueue, presentQueue, imageAcquired,
               acquirePending, window, log, frameOps, failed, badDestroy,
               destroyedInUse, hazardWrites, sinceSubmit, staleBudget,
               queueFamilyProperties, queueFamilyIndices, queueMap,
               queueCreateInfos, obtainedQueueCounters, queues,
               physicalDevices, physicalDevice, supportFormats,
               supportPresentModes, swapChainCreateInfo, memProperties,
               buffers, transferQueue, bufferCall>>

\* ... vkFreeCommandBuffers; copyBuffer returns.

CopyFree ==
  /\ pc = "copy_free"
  /\ DestroyHandles({bufferCall.cmdBuffer})
  /\ Goto("buffers")
  /\ UNCHANGED <<retpc, running, currentFrame, imageIndex,
               acquireNextImageResult, queuePresentResult,
               numSwapChainImages, swapChainSupportDetails, swapChain,
               swapChainImageViews, swapChainFramebuffers, renderPass,
               graphicsPipeline, viewport, scissor, frameRes, cmdRecorded,
               updWidth, updHeight, created, gen, nextImage,
               renderPassCreateInfo, createdFormat, fenceSignaled,
               semSignaled, graphicsQueue, presentQueue, imageAcquired,
               acquirePending, window, log, frameOps, failed, hazardWrites,
               sinceSubmit, staleBudget, queueFamilyProperties,
               queueFamilyIndices, queueMap, queueCreateInfos,
               obtainedQueueCounters, queues, physicalDevices,
               physicalDevice, supportFormats, supportPresentModes,
               swapChainCreateInfo, memProperties, buffers, transferQueue,
               bufferCall>>

\* The device runs the command buffer at the head of the transfer queue.

GpuTransfer ==
  /\ transferQueue # <<>>
  /\ transferQueue' = Tail(transferQueue)
  /\ UNCHANGED <<pc, retpc, running, currentFrame, imageIndex,
               acquireNextImageResult, queuePresentResult,
               numSwapChainImages, swapChainSupportDetails, swapChain,
               swapChainImageViews, swapChainFramebuffers, renderPass,
               graphicsPipeline, viewport, scissor, frameRes, cmdRecorded,
               updWidth, updHeight, live, created, gen, nextImage,
               renderPassCreateInfo, createdFormat, fenceSignaled,
               semSignaled, graphicsQueue, presentQueue, imageAcquired,
               acquirePending, window, log, frameOps, failed, badDestroy,
               destroyedInUse, hazardWrites, sinceSubmit, staleBudget,
               queueFamilyProperties, queueFamilyIndices, queueMap,
               queueCreateInfos, obtainedQueueCounters, queues,
               physicalDevices, physicalDevice, supportFormats,
               supportPresentModes, swapChainCreateInfo, memProperties,
               buffers, bufferCall>>

BufferHelpers ==
  \/ CreateBuffer \/ DestroyBuffer \/ CopyAllocate \/ CopyRecord
  \/ CopySubmit \/ CopyWaitIdle \/ CopyFree \/ GpuTransfer

\* ------------------------------------------------------- frame resources
\* main() creates one uniform buffer per swapchain image ...

CreateUniformBuffers ==
  /\ pc = "create_uniform_buffers"
  /\ LET uniformBuffers == NewVector("uniformBuffer", 1, numSwapChainImages)
     IN /\ frameRes' = [frameRes EXCEPT !.uniformBuffers = uniformBuffers]
        /\ CreateHandles(SeqToSet(uniformBuffers)
                           \cup {MemoryOf(uniformBuffers[i]) :
                                   i \in 1..numSwapChainImages})
  /\ Goto("create_descriptor_pool")
  /\ UNCHANGED <<retpc, running, currentFrame, imageIndex,
               acquireNextImageResult, queuePresentResult,
               numSwapChainImages, swapChainSupportDetails, swapChain,
               swapChainImageViews, swapChainFramebuffers, renderPass,
               graphicsPipeline, viewport, scissor, cmdRecorded, updWidth,
               updHeight, gen, nextImage, renderPassCreateInfo,
               createdFormat, fenceSignaled, semSignaled, graphicsQueue,
               presentQueue, imageAcquired, acquirePending, window, log,
               frameOps, failed, badDestroy, destroyedInUse, hazardWrites,
               sinceSubmit, staleBudget, queueFamilyProperties,
               queueFamilyIndices, queueMap, queueCreateInfos,
               obtainedQueueCounters, queues, physicalDevices,
               physicalDevice, supportFormats, supportPresentModes,
               swapChainCreateInfo, memProperties, buffers, transferQueue,
               bufferCall>>

\* ... a descriptor pool of numSwapChainImages sets ...

CreateDescriptorPool ==
  /\ pc = "create_descriptor_pool"
  /\ CreateHandles({descriptorPool})
  /\ Goto("allocate_descriptor_sets")
  /\ UNCHANGED <<retpc, running, currentFrame, imageIndex,
               acquireNextImageResult, queuePresentResult,
               numSwapChainImages, swapChainSupportDetails, swapChain,
               swapChainImageViews, swapChainFramebuffers, renderPass,
               graphicsPipeline, viewport, scissor, frameRes, cmdRecorded,
               updWidth, updHeight, gen, nextImage, renderPassCreateInfo,
               createdFormat, fenceSignaled, semSignaled, graphicsQueue,
               presentQueue, imageAcquired, acquirePending, window, log,
               frameOps, failed, badDestroy, destroyedInUse, hazardWrites,
               sinceSubmit, staleBudget, queueFamilyProperties,
               queueFamilyIndices, queueMap, queueCreateInfos,
               obtainedQueueCounters, queues, physicalDevices,
               physicalDevice, supportFormats, supportPresentModes,
               swapChainCreateInfo, memProperties, buffers, transferQueue,
               bufferCall>>

\* ... numSwapChainImages descriptor sets, set i written with uniform
\* buffer i ...

AllocateDescriptorSets ==
  /\ pc = "allocate_descriptor_sets"
  /\ LET descriptorSets == NewVector("descriptorSet", 1, numSwapChainImages)
     IN /\ frameRes' = [frameRes EXCEPT !.descriptorSets = descriptorSets]
        /\ CreateHandles(SeqToSet(descriptorSets))
  /\ Goto("allocate_command_buffers")
  /\ UNCHANGED <<retpc, running, currentFrame, imageIndex,
               acquireNextImageResult, queuePresentResult,
               numSwapChainImages, swapChainSupportDetails, swapChain,
               swapChainImageViews, swapChainFramebuffers, renderPass,
               graphicsPipeline, viewport, scissor, cmdRecorded, updWidth,
               updHeight, gen, nextImage, renderPassCreateInfo,
               createdFormat, fenceSignaled, semSignaled, graphicsQueue,
               presentQueue, imageAcquired, acquirePending, window, log,
               frameOps, failed, badDestroy, destroyedInUse, hazardWrites,
               sinceSubmit, staleBudget, queueFamilyProperties,
               queueFamilyIndices, queueMap, queueCreateInfos,
               obtainedQueueCounters, queues, physicalDevices,
               physicalDevice, supportFormats, supportPresentModes,
               swapChainCreateInfo, memProperties, buffers, transferQueue,
               bufferCall>>

\* ... as many command buffers as the vector has elements, recorded at
\* once ...

AllocateCommandBuffers ==
  /\ pc = "allocate_command_buffers"
  /\ LET graphicsCmdBuffers == NewVector("cmdBuffer", 1, numSwapChainImages)
     IN /\ frameRes' =
             [frameRes EXCEPT !.graphicsCmdBuffers = graphicsCmdBuffers]
        /\ CreateHandles(SeqToSet(graphicsCmdBuffers))
        /\ cmdRecorded' =
             recordCommand(numSwapChainImages,
                           ResetCommandPool(graphicsCmdBuffers), renderPass,
                           swapChainFramebuffers, graphicsPipeline,
                           frameRes.descriptorSets)
  /\ Goto("create_sync_objects")
  /\ UNCHANGED <<retpc, running, currentFrame, imageIndex,
               acquireNextImageResult, queuePresentResult,
               numSwapChainImages, swapChainSupportDetails, swapChain,
               swapChainImageViews, swapChainFramebuffers, renderPass,
               graphicsPipeline, viewport, scissor, updWidth, updHeight, gen,
               nextImage, renderPassCreateInfo, createdFormat, fenceSignaled,
               semSignaled, graphicsQueue, presentQueue, imageAcquired,
               acquirePending, window, log, frameOps, failed, badDestroy,
               destroyedInUse, hazardWrites, sinceSubmit, staleBudget,
               queueFamilyProperties, queueFamilyIndices, queueMap,
               queueCreateInfos, obtainedQueueCounters, queues,
               physicalDevices, physicalDevice, supportFormats,
               supportPresentModes, swapChainCreateInfo, memProperties,
               buffers, transferQueue, bufferCall>>

\* ... and, per image, two semaphores and a fence created signaled; then
\* the frame loop starts.

CreateSyncObjects ==
  /\ pc = "create_sync_objects"
  /\ LET imageAvailableSemaphores ==
           NewVector("imageAvailableSemaphore", 1, numSwapChainImages)
         renderFinishedSemaphores ==
           NewVector("renderFinishedSemaphore", 1, numSwapChainImages)
         imageAvailableFences == NewVector("fence", 1, numSwapChainImages)
     IN /\ frameRes' =
             [frameRes EXCEPT
                !.imageAvailableSemaphores = imageAvailableSemaphores,
                !.renderFinishedSemaphores = renderFinishedSemaphores,
                !.imageAvailableFences = imageAvailableFences]
        /\ CreateHandles(SeqToSet(imageAvailableSemaphores)
                           \cup SeqToSet(renderFinishedSemaphores)
                           \cup SeqToSet(imageAvailableFences))
  /\ fenceSignaled' = NewFences(numSwapChainImages)
  /\ semSignaled' = NewSemaphores(numSwapChainImages)
  /\ Goto("loop")
  /\ UNCHANGED <<retpc, running, currentFrame, imageIndex,
               acquireNextImageResult, queuePresentResult,
               numSwapChainImages, swapChainSupportDetails, swapChain,
               swapChainImageViews, swapChainFramebuffers, renderPass,
               graphicsPipeline, viewport, scissor, cmdRecorded, updWidth,
               updHeight, gen, nextImage, renderPassCreateInfo,
               createdFormat, graphicsQueue, presentQueue, imageAcquired,
               acquirePending, window, log, frameOps, failed, badDestroy,
               destroyedInUse, hazardWrites, sinceSubmit, staleBudget,
               queueFamilyProperties, queueFamilyIndices, queueMap,
               queueCreateInfos, obtainedQueueCounters, queues,
               physicalDevices, physicalDevice, supportFormats,
               supportPresentModes, swapChainCreateInfo, memProperties,
               buffers, transferQueue, bufferCall>>

CreateFrameResources ==
  \/ CreateUniformBuffers \/ CreateDescriptorPool \/ AllocateDescriptorSets
  \/ AllocateCommandBuffers \/ CreateSyncObjects

\* ---------------------------------------------------------------- faults
\* A Vulkan call of the frame returns an error other than the staleness
\* codes (a lost device, a lost surface, no memory).
FaultAllowed == Cardinality(failed) < MaxFaults
Fails(name) == failed' = failed \cup {name}

\* vkAcquireNextImageKHR fails: no image is acquired, imageIndex is not
\* written and the semaphore is not signaled.  The result is compared with
\* VK_ERROR_OUT_OF_DATE_KHR only, so the body goes on.

AcquireNextImageFails ==
  /\ pc = "acquire"
  /\ FaultAllowed
  /\ acquireNextImageResult' = "VK_ERROR_DEVICE_LOST"
  /\ Fails("vkAcquireNextImageKHR")
  /\ Did("vkAcquireNextImageKHR", {}, {}, swapChain.Handle)
  /\ Call("vkAcquireNextImageKHR")
  /\ Goto(IF AcquireIsStale(acquireNextImageResult') THEN "acquire_stale"
          ELSE "wait_fence")
  /\ UNCHANGED <<retpc, running, currentFrame, imageIndex,
               queuePresentResult, numSwapChainImages,
               swapChainSupportDetails, swapChain, swapChainImageViews,
               swapChainFramebuffers, renderPass, graphicsPipeline, viewport,
               scissor, frameRes, cmdRecorded, updWidth, updHeight, live,
               created, gen, nextImage, renderPassCreateInfo, createdFormat,
               fenceSignaled, semSignaled, graphicsQueue, presentQueue,
               imageAcquired, acquirePending, window, badDestroy,
               destroyedInUse, hazardWrites, sinceSubmit, staleBudget,
               queueFamilyProperties, queueFamilyIndices, queueMap,
               queueCreateInfos, obtainedQueueCounters, queues,
               physicalDevices, physicalDevice, supportFormats,
               supportPresentModes, swapChainCreateInfo, memProperties,
               buffers, transferQueue, bufferCall>>

\* vkWaitForFences fails: it returns although the fence is not signaled.
\* The result is dropped, so the body goes on.

WaitForFencesFails ==
  /\ pc = "wait_fence"
  /\ FaultAllowed
  /\ ~fenceSignaled[Slot]
  /\ Fails("vkWaitForFences")
  /\ Did("vkWaitForFences", {frameRes.imageAvailableFences[Slot]}, {},
         VK_NULL_HANDLE)
  /\ Call("vkWaitForFences")
  /\ Goto("reset_fence")
  /\ UNCHANGED <<retpc, running, currentFrame, imageIndex,
               acquireNextImageResult, queuePresentResult,
               numSwapChainImages, swapChainSupportDetails, swapChain,
               swapChainImageViews, swapChainFramebuffers, renderPass,
               graphicsPipeline, viewport, scissor, frameRes, cmdRecorded,
               updWidth, updHeight, live, created, gen, nextImage,
               renderPassCreateInfo, createdFormat, fenceSignaled,
               semSignaled, graphicsQueue, presentQueue, imageAcquired,
               acquirePending, window, badDestroy, destroyedInUse,
               hazardWrites, sinceSubmit, staleBudget, queueFamilyProperties,
               queueFamilyIndices, queueMap, queueCreateInfos,
               obtainedQueueCounters, queues, physicalDevices,
               physicalDevice, supportFormats, supportPresentModes,
               swapChainCreateInfo, memProperties, buffers, transferQueue,
               bufferCall>>

\* BB_VK_ASSERT(vkQueueSubmit(...)) with a failing submit: nothing is
\* queued and the assertion stops the program (debug build).

QueueSubmitFails ==
  /\ pc = "submit"
  /\ FaultAllowed
  /\ Fails("vkQueueSubmit")
  /\ Call("vkQueueSubmit")
  /\ Goto("abort")
  /\ UNCHANGED <<retpc, running, currentFrame, imageIndex,
               acquireNextImageResult, queuePresentResult,
               numSwapChainImages, swapChainSupportDetails, swapChain,
               swapChainImageViews, swapChainFramebuffers, renderPass,
               graphicsPipeline, viewport, scissor, frameRes, cmdRecorded,
               updWidth, updHeight, live, created, gen, nextImage,
               renderPassCreateInfo, createdFormat, fenceSignaled,
               semSignaled, graphicsQueue, presentQueue, imageAcquired,
               acquirePending, window, frameOps, badDestroy, destroyedInUse,
               hazardWrites, sinceSubmit, staleBudget, queueFamilyProperties,
               queueFamilyIndices, queueMap, queueCreateInfos,
               obtainedQueueCounters, queues, physicalDevices,
               physicalDevice, supportFormats, supportPresentModes,
               swapChainCreateInfo, memProperties, buffers, transferQueue,
               bufferCall>>

\* vkQueuePresentKHR fails: nothing is queued and the image stays with the
\* program.  The result is compared with the two staleness codes only, so
\* the body goes on to the advance.

QueuePresentFails ==
  /\ pc = "present"
  /\ FaultAllowed
  /\ queuePresentResult' = "VK_ERROR_DEVICE_LOST"
  /\ Fails("vkQueuePresentKHR")
  /\ Call("vkQueuePresentKHR")
  /\ Goto(IF PresentIsStale(queuePresentResult') THEN "present_stale"
          ELSE "advance")
  /\ UNCHANGED <<retpc, running, currentFrame, imageIndex,
               acquireNextImageResult, numSwapChainImages,
               swapChainSupportDetails, swapChain, swapChainImageViews,
               swapChainFramebuffers, renderPass, graphicsPipeline, viewport,
               scissor, frameRes, cmdRecorded, updWidth, updHeight, live,
               created, gen, nextImage, renderPassCreateInfo, createdFormat,
               fenceSignaled, semSignaled, graphicsQueue, presentQueue,
               imageAcquired, acquirePending, window, frameOps, badDestroy,
               destroyedInUse, hazardWrites, sinceSubmit, staleBudget,
               queueFamilyProperties, queueFamilyIndices, queueMap,
               queueCreateInfos, obtainedQueueCounters, queues,
               physicalDevices, physicalDevice, supportFormats,
               supportPresentModes, swapChainCreateInfo, memProperties,
               buffers, transferQueue, bufferCall>>

\* After a failed acquire imageIndex holds no value the program wrote:
\* presentInfo.pImageIndices points to whatever the stack held, here any
\* image of the swapchain.

QueuePresentIndeterminate ==
  /\ pc = "present"
  /\ imageIndex = -1
  /\ \E img \in 0..(numSwapChainImages - 1) :
       presentQueue' =
         Append(presentQueue,
                [slot |-> currentFrame, swapchain |-> swapChain.Handle,
                 wait |-> PresentWaitSemaphore, image |-> img])
  /\ queuePresentResult' = "VK_SUCCESS"
  /\ Did("vkQueuePresentKHR", {PresentWaitSemaphore}, {}, swapChain.Handle)
  /\ Call("vkQueuePresentKHR")
  /\ Goto("advance")
  /\ UNCHANGED <<retpc, running, currentFrame, imageIndex,
               acquireNextImageResult, numSwapChainImages,
               swapChainSupportDetails, swapChain, swapChainImageViews,
               swapChainFramebuffers, renderPass, graphicsPipeline, viewport,
               scissor, frameRes, cmdRecorded, updWidth, updHeight, live,
               created, gen, nextImage, renderPassCreateInfo, createdFormat,
               fenceSignaled, semSignaled, graphicsQueue, imageAcquired,
               acquirePending, window, failed, badDestroy, destroyedInUse,
               hazardWrites, sinceSubmit, staleBudget, queueFamilyProperties,
               queueFamilyIndices, queueMap, queueCreateInfos,
               obtainedQueueCounters, queues, physicalDevices,
               physicalDevice, supportFormats, supportPresentModes,
               swapChainCreateInfo, memProperties, buffers, transferQueue,
               bufferCall>>

Faults ==
  \/ AcquireNextImageFails \/ WaitForFencesFails \/ QueueSubmitFails
  \/ QueuePresentFails \/ QueuePresentIndeterminate

\* --------------------------------------------------------- specification
\* vkAcquireNextImageKHR on a presentation engine that hands the images of
\* a swapchain out in rotating order, image 0 first: the call returns when
\* the image whose turn it is is free.

AcquireNextImageRotating ==
  /\ pc = "acquire"
  /\ \E res \in AcquireResults :
       /\ acquireNextImageResult' = res
       /\ IF res = "VK_ERROR_OUT_OF_DATE_KHR"
          THEN /\ UNCHANGED <<imageIndex, imageAcquired, semSignaled,
                              acquirePending, nextImage>>
               /\ Did("vkAcquireNextImageKHR", {}, {}, swapChain.Handle)
          ELSE \E img \in {nextImage} \ imageAcquired :
                 /\ imageIndex' = img
                 /\ imageAcquired' = imageAcquired \cup {img}
                 /\ nextImage' = (nextImage + 1) % numSwapChainImages
                 /\ Did("vkAcquireNextImageKHR", {}, {AcquireSemaphore},
                        swapChain.Handle)
                 /\ IF PendingPresentsOf(img) = 0
                    THEN /\ semSignaled' =
                              [semSignaled EXCEPT
                                 !.imageAvailable[IndexOf(AcquireSemaphore)] =
                                    TRUE]
                         /\ acquirePending' = acquirePending
                    ELSE /\ semSignaled' = semSignaled
                         /\ acquirePending' = acquirePending \cup
                              {[slot |-> currentFrame, image |-> img,
                                semaphore |-> AcquireSemaphore,
                                remaining |-> PendingPresentsOf(img)]}
       /\ Goto(IF AcquireIsStale(res) THEN "acquire_stale" ELSE "wait_fence")
  /\ Call("vkAcquireNextImageKHR")
  /\ UNCHANGED <<retpc, running, currentFrame, queuePresentResult,
               numSwapChainImages, swapChainSupportDetails, swapChain,
               swapChainImageViews, swapChainFramebuffers, renderPass,
               graphicsPipeline, viewport, scissor, frameRes, cmdRecorded,
               updWidth, updHeight, live, created, gen, renderPassCreateInfo,
               createdFormat, fenceSignaled, graphicsQueue, presentQueue,
               window, failed, badDestroy, destroyedInUse, hazardWrites,
               sinceSubmit, staleBudget, queueFamilyProperties,
               queueFamilyIndices, queueMap, queueCreateInfos,
               obtainedQueueCounters, queues, physicalDevices,
               physicalDevice, supportFormats, supportPresentModes,
               swapChainCreateInfo, memProperties, buffers, transferQueue,
               bufferCall>>

\* vkGetPhysicalDeviceSurfaceCapabilitiesKHR on a surface whose image count
\* limits are not those of the previous query (the stale-acquire and the
\* stale-present branch): any minimum, and no maximum or one not below the
\* minimum.
SurfaceImageLimits ==
  {l \in (1..(MaxImageCount - 1)) \X (0..(MaxImageCount - 1)) :
     l[2] = 0 \/ l[2] >= l[1]}
QuerySurfaceCapabilitiesWith(win, limits) ==
  [QuerySurfaceCapabilities(win, limits[1]) EXCEPT !.maxImageCount = limits[2]]

AcquireStaleAnyCount ==
  /\ pc = "acquire_stale"
  /\ \E limits \in SurfaceImageLimits :
       swapChainSupportDetails' = QuerySurfaceCapabilitiesWith(window, limits)
  /\ retpc' = "loop"
  /\ Call("vkGetPhysicalDeviceSurfaceCapabilitiesKHR")
  /\ Goto("upd_enter")
  /\ UNCHANGED <<running, currentFrame, imageIndex, acquireNextImageResult,
               queuePresentResult, numSwapChainImages, swapChain,
               swapChainImageViews, swapChainFramebuffers, renderPass,
               graphicsPipeline, viewport, scissor, frameRes, cmdRecorded,
               updWidth, updHeight, live, created, gen, nextImage,
               renderPassCreateInfo, createdFormat, fenceSignaled,
               semSignaled, graphicsQueue, presentQueue, imageAcquired,
               acquirePending, window, frameOps, failed, badDestroy,
               destroyedInUse, hazardWrites, sinceSubmit, staleBudget,
               queueFamilyProperties, queueFamilyIndices, queueMap,
               queueCreateInfos, obtainedQueueCounters, queues,
               physicalDevices, physicalDevice, supportFormats,
               supportPresentModes, swapChainCreateInfo, memProperties,
               buffers, transferQueue, bufferCall>>

PresentStaleAnyCount ==
  /\ pc = "present_stale"
  /\ \E limits \in SurfaceImageLimits :
       swapChainSupportDetails' = QuerySurfaceCapabilitiesWith(window, limits)
  /\ retpc' = PresentStaleReturn
  /\ Call("vkGetPhysicalDeviceSurfaceCapabilitiesKHR")
  /\ Goto("upd_enter")
  /\ UNCHANGED <<running, currentFrame, imageIndex, acquireNextImageResult,
               queuePresentResult, numSwapChainImages, swapChain,
               swapChainImageViews, swapChainFramebuffers, renderPass,
               graphicsPipeline, viewport, scissor, frameRes, cmdRecorded,
               updWidth, updHeight, live, created, gen, nextImage,
               renderPassCreateInfo, createdFormat, fenceSignaled,
               semSignaled, graphicsQueue, presentQueue, imageAcquired,
               acquirePending, window, frameOps, failed, badDestroy,
               destroyedInUse, hazardWrites, sinceSubmit, staleBudget,
               queueFamilyProperties, queueFamilyIndices, queueMap,
               queueCreateInfos, obtainedQueueCounters, queues,
               physicalDevices, physicalDevice, supportFormats,
               supportPresentModes, swapChainCreateInfo, memProperties,
               buffers, transferQueue, bufferCall>>

MainLoop ==
  \/ LoopTest \/ PollEvents \/ AcquireNextImage \/ AcquireStale
  \/ WaitForFences \/ ResetFences \/ WriteUniform \/ QueueSubmit
  \/ QueuePresent \/ PresentStale \/ AdvanceFrame

Shutdown ==
  \/ ShutdownWaitIdleCompute \/ ShutdownWaitIdleGraphics
  \/ ShutdownWaitIdleTransfer \/ ShutdownWaitIdlePresent
  \/ ShutdownDestroySync \/ ShutdownFreeCommandBuffers
  \/ ShutdownDestroyDescriptorPool \/ ShutdownDestroyUniformBuffers
  \/ ShutdownDestroyBuffers \/ ShutdownDestroyCommandPools
  \/ ShutdownDestroyFramebuffers \/ ShutdownDestroyPipeline
  \/ ShutdownDestroyRenderPass \/ ShutdownDestroyPipelineLayout
  \/ ShutdownDestroyDescriptorSetLayout \/ ShutdownDestroyShaderModules
  \/ ShutdownDestroyImageViews \/ ShutdownDestroySwapchain
  \/ ShutdownDestroyDevice \/ ShutdownDestroySurface
  \/ ShutdownDestroyMessenger \/ ShutdownDestroyInstance

Gpu == GpuExecute \/ GpuPresent

WindowSystem ==
  WindowMinimize \/ WindowRestore

Next == MainLoop \/ UpdateSwapChain \/ Shutdown \/ Gpu \/ WindowSystem

Spec == Init /\ [][Next]_vars

\* Progress: the CPU thread takes its next step whenever the call it is in
\* can return (acquire, fence wait, idle waits), except that SDL_WaitEvent
\* returns only when the window system delivers an event; the GPU and the
\* presentation engine run the work they are given.
CpuStep == (MainLoop \/ UpdateSwapChain \/ Shutdown) /\ pc # "upd_wait_event"
SpecLive ==
  /\ InitLive /\ [][Next]_vars
  /\ WF_vars(CpuStep) /\ WF_vars(GpuExecute) /\ WF_vars(GpuPresent)

\* The same program on a device whose calls may fail.
NextFaults == Next \/ Faults
SpecFaults == InitLive /\ [][NextFaults]_vars

\* Device selection and creation, for every list of queue families.
SpecStartup == InitStartup /\ [][Startup]_vars

\* Device creation on devices whose families expose any number of queues.
SpecQueueCounts == InitQueueCounts /\ [][Startup]_vars

\* Device selection over every list of physical devices, up to the
\* creation of the device.
NextSelect == SelectDevice \/ CountDeviceQueues \/ CreateDevice \/ FetchDeviceQueue
SpecSelect == InitSelect /\ [][NextSelect]_vars

\* createSwapChain for every surface and requested size.
SpecSwapChain == InitSwapChain /\ [][CreateSwapChain]_vars

\* The buffer helpers, called in any order on two Buffer structs.
SpecBuffers == InitBuffers /\ [][BufferHelpers]_vars

\* The creation of the per-frame objects, for every image count the
\* surface can lead to.
SpecFrameResources == InitFrameResources /\ [][CreateFrameResources]_vars

\* The same program on a presentation engine that returns the images in
\* rotating order.
NextRotating ==
  \/ LoopTest \/ PollEvents \/ AcquireNextImageRotating \/ AcquireStale
  \/ WaitForFences \/ ResetFences \/ WriteUniform \/ QueueSubmit
  \/ QueuePresent \/ PresentStale \/ AdvanceFrame
  \/ UpdateSwapChain \/ Shutdown \/ Gpu \/ WindowSystem
SpecRotating == InitLive /\ [][NextRotating]_vars

\* The same program on a surface whose image count limits change between
\* two queries.
NextImageCount ==
  \/ LoopTest \/ PollEvents \/ AcquireNextImage \/ AcquireStaleAnyCount
  \/ WaitForFences \/ ResetFences \/ WriteUniform \/ QueueSubmit
  \/ QueuePresent \/ PresentStaleAnyCount \/ AdvanceFrame
  \/ UpdateSwapChain \/ Shutdown \/ Gpu \/ WindowSystem
SpecImageCount == InitLive /\ [][NextImageCount]_vars

\* The same program on surfaces with other lists of formats.
SpecFormats == InitFormats /\ [][Next]_vars

\* The same program with a user who also resizes the window.
NextResize == Next \/ WindowResize
SpecResize == Init /\ [][NextResize]_vars
\* ------------------------------------------------------------ properties
UpdDestroyPcs ==
  {"upd_destroy_framebuffers", "upd_destroy_pipeline",
   "upd_destroy_render_pass", "upd_destroy_image_views",
   "upd_destroy_swapchain"}
UpdCreatePcs ==
  {"upd_create_swapchain", "upd_get_images", "upd_create_image_views",
   "upd_create_render_pass", "upd_create_pipeline",
   "upd_create_framebuffers", "upd_reset_pool", "upd_record"}
UpdPcs ==
  {"upd_enter", "upd_wait_event", "upd_get_size", "upd_wait_idle"}
    \cup UpdDestroyPcs \cup UpdCreatePcs
\* Positions after the loop body has ended.
ShutdownIdlePcs ==
  {"shutdown_idle", "shutdown_idle_graphics", "shutdown_idle_transfer",
   "shutdown_idle_present"}
ShutdownDestroyPcs ==
  {"shutdown_sync", "shutdown_cmd_buffers", "shutdown_descriptor_pool",
   "shutdown_uniform_buffers", "shutdown_buffers", "shutdown_cmd_pools",
   "shutdown_framebuffers", "shutdown_pipeline", "shutdown_render_pass",
   "shutdown_pipeline_layout", "shutdown_set_layout", "shutdown_shaders",
   "shutdown_image_views", "shutdown_swapchain", "shutdown_device",
   "shutdown_surface", "shutdown_messenger", "shutdown_instance"}
\* Positions from the first destroy of the shutdown on.
TearDownPcs == (ShutdownDestroyPcs \ {"shutdown_sync"}) \cup {"done"}
AfterBodyPcs == {"loop", "done"} \cup ShutdownIdlePcs \cup ShutdownDestroyPcs
\* Positions right after the loop body, before any call of the shutdown.
EndOfBodyPcs == {"loop", "shutdown_idle"}

Logged(name) == \E k \in 1..Len(log) : log[k] = name
LogCount(name) == Cardinality({k \in 1..Len(log) : log[k] = name})
\* Position of the first call of that name in the log, 0 when absent.
LogPos(name) ==
  IF Logged(name) THEN CHOOSE k \in 1..Len(log) :
                         log[k] = name /\ \A j \in 1..(k - 1) : log[j] # name
  ELSE 0
IsPrefix(s, t) == Len(s) <= Len(t) /\ \A k \in 1..Len(s) : s[k] = t[k]

PendingWithFence(f) ==
  Cardinality({k \in 1..Len(graphicsQueue) : graphicsQueue[k].fence = f})

C2_UniformWriteSafe ==
  /\ hazardWrites = {}
  /\ pc = "write_uniform" => UniformWriteTarget \notin InUse

\* The slot is written for a later frame (its earlier present is still
\* queued) while the GPU has yet to run the submission of the other slot.
C2_Witness ==
  /\ pc = "write_uniform"
  /\ graphicsQueue # <<>>
  /\ \E k \in 1..Len(presentQueue) : presentQueue[k].slot = currentFrame

FrameCalls ==
  {"vkWaitForFences", "vkResetFences", "memcpy", "vkQueueSubmit",
   "vkQueuePresentKHR"}

\* C3: in an iteration whose acquire returned out-of-date there is no fence
\* wait, fence reset, uniform write, submit or present; one recreation runs,
\* and it returns to the top of the loop.
C3_StaleAcquireSkipsFrame ==
  acquireNextImageResult = "VK_ERROR_OUT_OF_DATE_KHR" =>
    /\ \A c \in FrameCalls : ~Logged(c)
    /\ ~Logged("advance")
    /\ pc \in {"acquire_stale"} \cup UpdPcs \cup AfterBodyPcs
    /\ pc \in UpdPcs => retpc = "loop"
    /\ LogCount("updateSwapChain") <= 1
    /\ pc \in EndOfBodyPcs =>
         /\ LogCount("updateSwapChain") = 1
         /\ log[Len(log)] = "recordCommand"

\* An iteration with an out-of-date acquire has ended and the next starts.
C3_Witness ==
  /\ pc = "loop"
  /\ running
  /\ acquireNextImageResult = "VK_ERROR_OUT_OF_DATE_KHR"

\* C4: when present returned out-of-date or suboptimal, the submit of the
\* frame precedes it, one recreation runs after the present and before the
\* next acquire, and the iteration still ends by advancing the frame slot by
\* one.
C4_StalePresentState ==
  PresentIsStale(queuePresentResult) =>
    /\ LogCount("vkQueueSubmit") = 1
    /\ LogCount("vkQueuePresentKHR") = 1
    /\ LogCount("vkAcquireNextImageKHR") = 1
    /\ LogPos("vkQueueSubmit") < LogPos("vkQueuePresentKHR")
    /\ pc \in {"present_stale", "advance"} \cup UpdPcs \cup AfterBodyPcs
    /\ pc \in UpdPcs => retpc = "advance"
    /\ LogCount("updateSwapChain") <= 1
    /\ pc \in {"advance"} \cup AfterBodyPcs =>
         /\ LogCount("updateSwapChain") = 1
         /\ LogPos("vkQueuePresentKHR") < LogPos("updateSwapChain")
         /\ Logged("recordCommand")
    /\ pc \in EndOfBodyPcs => log[Len(log)] = "advance"
C4_SlotAdvances ==
  (PresentIsStale(queuePresentResult) /\ pc = "advance" /\ pc' = "loop")
    => currentFrame' = (currentFrame + 1) % numSwapChainImages
C4_StalePresentRecreates == []C4_StalePresentState /\ [][C4_SlotAdvances]_vars

\* An iteration with a stale present has ended, slot advanced.
C4_Witness ==
  /\ pc = "loop"
  /\ PresentIsStale(queuePresentResult)
  /\ log[Len(log)] = "advance"

\* C5: no swapchain-derived object is destroyed while pending GPU work uses
\* it: the destroys of a recreation run with both queues empty, after the
\* idle wait, and nothing is submitted between the wait and the destroys.
C5_DestroyAfterIdle ==
  /\ destroyedInUse = {}
  /\ pc \in UpdDestroyPcs =>
       /\ graphicsQueue = <<>>
       /\ presentQueue = <<>>
       /\ InUse = {}
       /\ Logged("vkDeviceWaitIdle")
       /\ LogPos("vkQueueSubmit") < LogPos("vkDeviceWaitIdle")
       /\ LogPos("vkQueuePresentKHR") < LogPos("vkDeviceWaitIdle")
       /\ LogCount("vkQueueSubmit") <= 1
       /\ LogCount("vkQueuePresentKHR") <= 1

\* The last destroy of a recreation that follows a submitted frame.
C5_Witness ==
  /\ pc = "upd_destroy_swapchain"
  /\ Logged("vkQueueSubmit")
  /\ swapChain.Handle \in live

RecreateOrder ==
  <<"vkDestroyFramebuffer", "vkDestroyPipeline", "vkDestroyRenderPass",
    "vkDestroyImageView", "vkDestroySwapchainKHR", "vkCreateSwapchainKHR",
    "vkCreateImageView", "vkCreateRenderPass", "vkCreateGraphicsPipelines",
    "vkCreateFramebuffer", "vkResetCommandPool", "recordCommand">>
InRecreateOrder(c) == \E k \in 1..Len(RecreateOrder) : RecreateOrder[k] = c
\* Every command buffer is recorded against the live render pass, pipeline
\* and its framebuffer.
RecordedAgainstLive ==
  \A i \in 1..numSwapChainImages :
    /\ cmdRecorded[i].recorded
    /\ cmdRecorded[i].renderPass = renderPass
    /\ cmdRecorded[i].pipeline = graphicsPipeline
    /\ cmdRecorded[i].framebuffer = swapChainFramebuffers[i]
    /\ {renderPass, graphicsPipeline, swapChainFramebuffers[i]} \subseteq live

\* C6: the calls of a recreation come in the order destroy framebuffers,
\* pipeline, render pass, image views, swapchain; create swapchain, image
\* views, render pass, pipeline, framebuffers; reset the command pool,
\* record; after which every command buffer is recorded against the new
\* objects.
C6_RecreationOrder ==
  /\ pc \notin TearDownPcs =>
       IsPrefix(SelectSeq(log, InRecreateOrder), RecreateOrder)
  /\ (Logged("updateSwapChain") /\ pc \notin UpdPcs /\ pc \notin TearDownPcs) =>
       /\ SelectSeq(log, InRecreateOrder) = RecreateOrder
       /\ RecordedAgainstLive

\* A recreation has just returned into the loop body.
C6_Witness ==
  /\ pc = "advance"
  /\ log[Len(log)] = "recordCommand"
  /\ gen = 2

\* C7 (as claimed): a recreation entered with the window minimized waits for
\* an event and never creates a swapchain while the window is minimized, nor
\* a zero-area one.
C7_NoSwapchainWhileMinimized ==
  (pc = "upd_get_images" /\ Logged("SDL_WaitEvent")) =>
    /\ ~window.minimized
    /\ swapChain.Extent.width > 0
    /\ swapChain.Extent.height > 0

LiveOfKind(kind) == {h \in live : KindOf(h) = kind}

\* C8: at most one swapchain is live at any time; the old one is destroyed,
\* after the idle wait, before the new one is created.
C8_OneSwapchain ==
  /\ Cardinality(LiveOfKind("swapchain")) <= 1
  /\ pc = "upd_create_swapchain" =>
       /\ LiveOfKind("swapchain") = {}
       /\ 0 < LogPos("vkDeviceWaitIdle")
       /\ LogPos("vkDeviceWaitIdle") < LogPos("vkDestroySwapchainKHR")

\* The second recreation is about to create its swapchain.
C8_Witness ==
  /\ pc = "upd_create_swapchain"
  /\ gen = 2

PerFrameCreated == {h \in created : KindOf(h) \in PerFrameKinds}

SwapChainLive == {h \in live : KindOf(h) \in SwapChainKinds}
SwapChainHeld ==
  {swapChain.Handle, renderPass, graphicsPipeline}
    \cup SeqToSet(swapChainImageViews) \cup SeqToSet(swapChainFramebuffers)

\* C10: outside a recreation exactly one swapchain, render pass and
\* pipeline and one image view and framebuffer per image are live, they are
\* the ones the program holds, and no destroy ever hit a handle that was not
\* live; so every handle of an earlier cycle was destroyed exactly once.
C10_RecreationIdempotent ==
  /\ badDestroy = {}
  /\ (pc \notin UpdPcs /\ pc \notin TearDownPcs) =>
       /\ SwapChainLive = SwapChainHeld
       /\ Cardinality(LiveOfKind("swapchain")) = 1
       /\ Cardinality(LiveOfKind("renderPass")) = 1
       /\ Cardinality(LiveOfKind("pipeline")) = 1
       /\ Cardinality(LiveOfKind("imageView")) = numSwapChainImages
       /\ Cardinality(LiveOfKind("framebuffer")) = numSwapChainImages
       /\ Len(swapChainImageViews) = numSwapChainImages
       /\ Len(swapChainFramebuffers) = numSwapChainImages

\* Two recreations in a row, no frame submitted in between.
C10_Witness ==
  /\ sinceSubmit = 2
  /\ pc = "loop"
  /\ gen = 3
  /\ Cardinality(created \ live) = 2 * (3 + 2 * numSwapChainImages)

\* C11 (as claimed): after startup and after every recreation the viewport
\* and the scissor rectangle given to the live pipeline both equal the
\* extent of the current swapchain.  Stated for swapchains of non-zero area,
\* so that a violation does not rest on a recreation of a minimized window.
C11_ViewportScissorMatchExtent ==
  (pc \notin UpdPcs /\ swapChain.Extent.width > 0
     /\ swapChain.Extent.height > 0) =>
    /\ viewport = swapChain.Extent
    /\ scissor = swapChain.Extent

\* The frame calls of an iteration in slot s, in the order claimed, each
\* with the semaphores and fences it waits on and signals.
FrameOp(call, s, waits, signals, object) ==
  [call |-> call, slot |-> s, waits |-> waits, signals |-> signals,
   object |-> object]
ExpectedFrameOps(s) ==
  LET imageAvailable == frameRes.imageAvailableSemaphores[s + 1]
      renderFinished == frameRes.renderFinishedSemaphores[s + 1]
      fence == frameRes.imageAvailableFences[s + 1]
  IN <<FrameOp("vkAcquireNextImageKHR", s, {}, {imageAvailable},
               frameOps[1].object),
       FrameOp("vkWaitForFences", s, {fence}, {}, VK_NULL_HANDLE),
       FrameOp("vkResetFences", s, {}, {}, fence),
       FrameOp("memcpy", s, {}, {}, frameRes.uniformBuffers[s + 1]),
       FrameOp("vkQueueSubmit", s, {imageAvailable}, {renderFinished, fence},
               frameRes.graphicsCmdBuffers[s + 1]),
       FrameOp("vkQueuePresentKHR", s, {renderFinished}, {},
               frameOps[1].object),
       FrameOp("advance", s, {}, {}, VK_NULL_HANDLE)>>

\* C12: in an iteration not cut short by an out-of-date acquire the frame
\* calls are, in this order and all on the same frame slot: acquire (signals
\* imageAvailable[slot]), fence wait, fence reset, uniform write, submit
\* (waits imageAvailable[slot], signals renderFinished[slot] and the fence),
\* present (waits renderFinished[slot]), advance; the slot then moves on by
\* one.
C12_FrameOrder ==
  (frameOps # <<>> /\ acquireNextImageResult # "VK_ERROR_OUT_OF_DATE_KHR") =>
    /\ IsPrefix(frameOps, ExpectedFrameOps(frameOps[1].slot))
    /\ pc \in AfterBodyPcs =>
         /\ frameOps = ExpectedFrameOps(frameOps[1].slot)
         /\ currentFrame = NextFrame(frameOps[1].slot, numSwapChainImages)
    /\ pc \notin AfterBodyPcs => currentFrame = frameOps[1].slot

\* A full iteration has ended in which the image acquired was not the one
\* with the index of the frame slot, and a recreation ran after the present.
C12_Witness ==
  /\ pc = "loop"
  /\ Len(frameOps) = 7
  /\ imageIndex # frameOps[1].slot
  /\ Logged("recordCommand")

\* Objects an object needs for as long as it lives.
InstanceLevel == {"instance", "surface", "messenger", "device"}
DependsOn(h) ==
  (CASE KindOf(h) = "cmdBuffer" -> {graphicsCmdPool}
     [] KindOf(h) = "descriptorSet" -> {descriptorPool}
     [] KindOf(h) = "framebuffer" ->
          {Handle("renderPass", h[2], 0), Handle("imageView", h[2], h[3])}
     [] KindOf(h) = "pipeline" ->
          {pipelineLayout, Handle("renderPass", h[2], 0)}
     [] KindOf(h) = "imageView" -> {Handle("swapchain", h[2], 0)}
     [] OTHER -> {})
    \cup (IF KindOf(h) \notin InstanceLevel THEN {device} ELSE {})
    \cup (IF KindOf(h) \in InstanceLevel \ {"instance"} THEN {instance}
          ELSE {})

ShutdownPcs == ShutdownIdlePcs \cup ShutdownDestroyPcs \cup {"done"}
\* The running flag changes only in the event poll, from true to false.
QuitOnlyAtPoll ==
  running' # running => (pc = "poll" /\ running /\ ~running')
\* Once the flag is false no iteration starts.
NoIterationAfterQuit == ~running => ~(pc = "loop" /\ pc' = "poll")
\* The loop is left only at its test, with the flag false and the body of
\* the last iteration run to its end: after the acquire either the
\* recreation or the whole frame.
BodyRanToEnd ==
  pc = "shutdown_idle" =>
    /\ ~running
    /\ Logged("SDL_PollEvent") => Logged("vkAcquireNextImageKHR")
    /\ acquireNextImageResult = "VK_ERROR_OUT_OF_DATE_KHR" =>
         log[Len(log)] = "recordCommand"
    /\ acquireNextImageResult \in {"VK_SUCCESS", "VK_SUBOPTIMAL_KHR"} =>
         /\ Len(frameOps) = 7
         /\ log[Len(log)] = "advance"
QuitSafety ==
  [][QuitOnlyAtPoll /\ NoIterationAfterQuit]_vars /\ []BodyRanToEnd
ReachesShutdown == ~running ~> pc \in ShutdownPcs
\* The proviso: the CPU thread does not stay for ever in an acquire, a fence
\* wait or an idle wait.
BlockingPcs ==
  {"acquire", "wait_fence", "upd_wait_idle", "shutdown_idle_graphics",
   "shutdown_idle_present"}
BlockingCallsReturn == []<>(pc \notin BlockingPcs)
\* The same, and SDL_WaitEvent, entered by a recreation of a minimized
\* window, returns as well.
BlockingCallsAndEventWaitReturn ==
  []<>(pc \notin BlockingPcs \cup {"upd_wait_event"})

\* C15 (as claimed): a quit request is observed only by the event poll; the
\* iteration that observes it runs its body to the end and no further one
\* starts; the program then reaches the shutdown sequence, provided
\* acquire, fence waits and idle waits return.
C15_QuitReachesShutdown ==
  QuitSafety /\ (BlockingCallsReturn => ReachesShutdown)

\* C15 (amended): the same, and the shutdown sequence is reached provided
\* that also the event wait of a recreation of a minimized window returns.
C15_QuitReachesShutdownIfEventArrives ==
  QuitSafety /\ (BlockingCallsAndEventWaitReturn => ReachesShutdown)

\* The quit was observed in an iteration whose recreation waited for an
\* event, and the loop has been left.
C15_Witness ==
  /\ pc = "shutdown_idle"
  /\ ~running
  /\ Logged("SDL_PollEvent")
  /\ Logged("SDL_WaitEvent")

\* C16 (as claimed): a call of the frame that returns an error other than
\* out-of-date from acquire and out-of-date or suboptimal from present
\* stops the program (debug build); no failing acquire, fence wait, submit
\* or present is followed by further frame work.
C16_FailureAborts == failed # {} => pc = "abort"

\* ---------------------------------------------------------- queue families
Roles == {"Graphics", "Transfer0", "Present", "Compute"}
FamilyIndices == 0..(Len(queueFamilyProperties) - 1)
Satisfies(i, role) ==
  LET f == queueFamilyProperties[i + 1] IN
  CASE role = "Graphics"  -> "GRAPHICS" \in f.queueFlags
    [] role = "Transfer0" -> "TRANSFER" \in f.queueFlags
    [] role = "Compute"   -> "COMPUTE" \in f.queueFlags
    [] role = "Present"   -> f.supportPresent
\* The lowest family outside `taken` that satisfies the role, if any.
Lowest(role, taken) ==
  LET ok == {i \in FamilyIndices \ taken : Satisfies(i, role)} IN
  IF ok = {} THEN nullopt
  ELSE CHOOSE i \in ok : \A j \in ok : i <= j
EachCapabilityExists == \A r \in Roles : \E i \in FamilyIndices : Satisfies(i, r)
QueueFamilyReturned ==
  pc \in {"check_physical_device", "count_queues", "create_device",
          "get_device_queue", "device_ready", "abort"}
FamiliesUsed == {queueFamilyIndices[r] : r \in Roles}

\* C17: when the families offer graphics, transfer, compute and present,
\* getQueueFamily returns with all four roles set, each on a family that
\* satisfies it, whatever the number of families.
C17_AllRolesSet ==
  (QueueFamilyReturned /\ EachCapabilityExists)
    => /\ isCompleted(queueFamilyIndices)
       /\ \A r \in Roles :
            /\ queueFamilyIndices[r] \in FamilyIndices
            /\ Satisfies(queueFamilyIndices[r], r)
C17_Witness ==
  /\ pc = "check_physical_device"
  /\ EachCapabilityExists
  /\ Len(queueFamilyProperties) < 4
  /\ isCompleted(queueFamilyIndices)
  /\ Cardinality(FamiliesUsed) = Len(queueFamilyProperties)

\* C18: pass 1 gives each family at most one role, trying Graphics,
\* Transfer, Compute, Present in that order: Graphics is the lowest
\* graphics family, Transfer the lowest transfer family not taken, and so
\* on.  Pass 2 changes nothing when pass 1 set every role, keeps every role
\* pass 1 set, and gives each unset role the lowest family that satisfies it.
Pass1Expected ==
  LET g == Lowest("Graphics", {})
      t == Lowest("Transfer0", {g})
      c == Lowest("Compute", {g, t})
      p == Lowest("Present", {g, t, c})
  IN [Graphics |-> g, Transfer0 |-> t, Present |-> p, Compute |-> c]
Pass1Exclusive ==
  \A r1, r2 \in Roles :
    (r1 # r2 /\ has_value(queueFamilyIndices[r1]))
      => queueFamilyIndices[r1] # queueFamilyIndices[r2]
Pass1Greedy ==
  pc = "get_queue_family_pass2"
    => (queueFamilyIndices = Pass1Expected /\ Pass1Exclusive)
Pass2FillsUnset ==
  (pc = "get_queue_family_pass2" /\ pc' = "check_physical_device")
    => /\ isCompleted(queueFamilyIndices)
            => queueFamilyIndices' = queueFamilyIndices
       /\ \A r \in Roles :
            queueFamilyIndices'[r] =
              IF has_value(queueFamilyIndices[r]) THEN queueFamilyIndices[r]
              ELSE Lowest(r, {})
C18_TwoPasses == [](Pass1Greedy) /\ [][Pass2FillsUnset]_vars
C18_Witness ==
  /\ pc = "check_physical_device"
  /\ isCompleted(queueFamilyIndices)
  /\ Len(queueFamilyProperties) >= 3
  /\ queueFamilyIndices.Graphics # queueFamilyIndices.Transfer0
  /\ queueFamilyIndices.Present = queueFamilyIndices.Graphics

\* C19 (as claimed): when four pairwise distinct families can take the four
\* roles, getQueueFamily returns four pairwise distinct indices.
DistinctAssignmentExists ==
  \E g, t, p, c \in FamilyIndices :
    /\ Cardinality({g, t, p, c}) = 4
    /\ Satisfies(g, "Graphics") /\ Satisfies(t, "Transfer0")
    /\ Satisfies(p, "Present") /\ Satisfies(c, "Compute")
C19_DistinctWherePossible ==
  (QueueFamilyReturned /\ DistinctAssignmentExists)
    => Cardinality(FamiliesUsed) = 4

\* C20: every family a role uses is in exactly one queue request, with as
\* many queues as roles use the family; the roles fetch pairwise distinct
\* (family, index) pairs, each index below the count requested.
RequestsOf(f) ==
  {k \in 1..Len(queueCreateInfos) : queueCreateInfos[k].queueFamilyIndex = f}
RolesOn(f) == {r \in Roles : queueFamilyIndices[r] = f}
OneRequestPerFamily ==
  /\ \A f \in FamiliesUsed :
       /\ Cardinality(RequestsOf(f)) = 1
       /\ \A k \in RequestsOf(f) :
            queueCreateInfos[k].queueCount = Cardinality(RolesOn(f))
  /\ \A k \in 1..Len(queueCreateInfos) :
       queueCreateInfos[k].queueFamilyIndex \in FamiliesUsed
FetchedDistinct ==
  /\ \A r \in DOMAIN queues :
       /\ queues[r][1] = queueFamilyIndices[r]
       /\ queues[r][2] >= 0
       /\ \A k \in RequestsOf(queues[r][1]) :
            queues[r][2] < queueCreateInfos[k].queueCount
  /\ \A r1, r2 \in DOMAIN queues : r1 # r2 => queues[r1] # queues[r2]
C20_QueueRequests ==
  pc \in {"get_device_queue", "device_ready"}
    => (OneRequestPerFamily /\ FetchedDistinct)
C20_Witness ==
  /\ pc = "device_ready"
  /\ DOMAIN queues = Roles
  /\ Cardinality(FamiliesUsed) = 2
  /\ \E f \in FamiliesUsed : Cardinality(RolesOn(f)) = 3

\* ------------------------------------------------------- device selection
\* The tests of the claim, stated on what the device reports.
Suitable(d) ==
  /\ d.deviceType \in {"VK_PHYSICAL_DEVICE_TYPE_DISCRETE_GPU",
                       "VK_PHYSICAL_DEVICE_TYPE_INTEGRATED_GPU"}
  /\ RequiredFeatures \subseteq d.features
  /\ "VK_KHR_swapchain" \in d.extensions
  /\ d.Formats # <<>> /\ d.PresentModes # <<>>
  /\ \A r \in {"Graphics", "Transfer0", "Present", "Compute"} :
       getQueueFamily(d.families)[r] # nullopt
SuitableDevices ==
  {i \in 1..Len(physicalDevices) : Suitable(physicalDevices[i])}
SelectionDone == pc \in {"count_queues", "create_device", "get_device_queue",
                         "device_ready", "abort"}

\* C21: the device used is the first enumerated one that passes every test,
\* the queue indices and swapchain support details kept are its own, and
\* with no passing device the program stops.
C21_FirstSuitableDevice ==
  SelectionDone =>
    IF SuitableDevices = {}
    THEN pc = "abort" /\ physicalDevice = VK_NULL_HANDLE
    ELSE LET i == CHOOSE k \in SuitableDevices :
                    \A j \in SuitableDevices : k <= j
         IN /\ pc # "abort"
            /\ physicalDevice = Handle("physicalDevice", 1, i)
            /\ queueFamilyIndices = getQueueFamily(physicalDevices[i].families)
            /\ supportFormats = physicalDevices[i].Formats
            /\ supportPresentModes = physicalDevices[i].PresentModes
C21_Witness ==
  /\ pc = "device_ready"
  /\ Cardinality(SuitableDevices) = 2
  /\ physicalDevice = Handle("physicalDevice", 1, 2)
  /\ physicalDevices[2] # physicalDevices[3]

\* ------------------------------------------------- swapchain negotiation
SwapChainCreated == pc = "swapchain_created"
Caps == swapChainSupportDetails

\* C22: createSwapChain asks for minImageCount + 1 images, and for
\* maxImageCount instead exactly when maxImageCount is not 0 and
\* minImageCount + 1 is larger.
C22_ImageCount ==
  SwapChainCreated =>
    LET replaced == Caps.maxImageCount # 0
                      /\ Caps.minImageCount + 1 > Caps.maxImageCount
    IN /\ replaced => swapChainCreateInfo.minImageCount = Caps.maxImageCount
       /\ ~replaced =>
            swapChainCreateInfo.minImageCount = Caps.minImageCount + 1
C22_Witness ==
  /\ SwapChainCreated
  /\ Caps.minImageCount = 2
  /\ Caps.maxImageCount = 2
  /\ swapChainCreateInfo.minImageCount = 2

\* C23: choosePresentMode gives MAILBOX when the surface lists it and FIFO
\* otherwise, never another mode.
C23_PresentMode ==
  SwapChainCreated =>
    swapChainCreateInfo.presentMode =
      IF \E i \in 1..Len(supportPresentModes) :
           supportPresentModes[i] = "VK_PRESENT_MODE_MAILBOX_KHR"
      THEN "VK_PRESENT_MODE_MAILBOX_KHR"
      ELSE "VK_PRESENT_MODE_FIFO_KHR"
C23_Witness ==
  /\ SwapChainCreated
  /\ Len(supportPresentModes) = 3
  /\ supportPresentModes[3] = "VK_PRESENT_MODE_MAILBOX_KHR"
  /\ swapChainCreateInfo.presentMode = "VK_PRESENT_MODE_MAILBOX_KHR"

\* C24: chooseExtent(w, h) is the current extent of the surface when its
\* width is not UINT32_MAX, and otherwise w and h each clamped to the range
\* between the minimum and the maximum extent.
Clamped(v, lo, hi) ==
  CHOOSE x \in lo..hi : \A y \in lo..hi : (x - v) * (x - v) <= (y - v) * (y - v)
C24_Extent ==
  SwapChainCreated =>
    IF Caps.currentExtent.width # UINT32_MAX
    THEN swapChainCreateInfo.imageExtent = Caps.currentExtent
    ELSE /\ swapChainCreateInfo.imageExtent.width =
              Clamped(updWidth, Caps.minImageExtent.width,
                      Caps.maxImageExtent.width)
         /\ swapChainCreateInfo.imageExtent.height =
              Clamped(updHeight, Caps.minImageExtent.height,
                      Caps.maxImageExtent.height)
C24_Witness ==
  /\ SwapChainCreated
  /\ Caps.currentExtent.width = UINT32_MAX
  /\ updWidth > Caps.maxImageExtent.width
  /\ updHeight < Caps.minImageExtent.height
  /\ swapChainCreateInfo.imageExtent = Extent(3, 2)

\* C25: chooseSurfaceFormat gives the first entry that is R8G8B8A8_SRGB
\* with the SRGB_NONLINEAR colour space when there is one, and the first
\* entry of the list otherwise.
Preferred(f) ==
  /\ f.format = "VK_FORMAT_R8G8B8A8_SRGB"
  /\ f.colorSpace = "VK_COLOR_SPACE_SRGB_NONLINEAR_KHR"
C25_SurfaceFormat ==
  SwapChainCreated =>
    LET hits == {i \in 1..Len(supportFormats) : Preferred(supportFormats[i])}
        pick == IF hits = {} THEN 1
                ELSE CHOOSE i \in hits : \A j \in hits : i <= j
    IN /\ swapChainCreateInfo.imageFormat = supportFormats[pick].format
       /\ swapChainCreateInfo.imageColorSpace = supportFormats[pick].colorSpace
C25_Witness ==
  /\ SwapChainCreated
  /\ Len(supportFormats) = 2
  /\ ~Preferred(supportFormats[1])
  /\ Preferred(supportFormats[2])
  /\ swapChainCreateInfo.imageFormat = "VK_FORMAT_R8G8B8A8_SRGB"

\* ---------------------------------------------------------------- buffers
\* Memory types a request may use: allowed by the bitmask of the buffer
\* and holding every requested property flag.
MatchingTypes ==
  {i \in 0..(Len(memProperties) - 1) :
     /\ i \in bufferCall.memoryTypeBits
     /\ bufferCall.properties \subseteq memProperties[i + 1]}

\* C26: createBuffer backs the buffer with the lowest memory type that the
\* bitmask allows and that has every requested flag; with no such type the
\* program stops and no Buffer is returned.
C26_MemoryType ==
  bufferCall.op = "createBuffer" =>
    IF MatchingTypes = {}
    THEN pc = "abort" /\ buffers[bufferCall.name] = NullBuffer
    ELSE /\ pc # "abort"
         /\ bufferCall.memoryTypeIndex \in MatchingTypes
         /\ \A i \in MatchingTypes : bufferCall.memoryTypeIndex <= i
         /\ ReleasedBy(buffers[bufferCall.name]) \subseteq live
         /\ Cardinality(ReleasedBy(buffers[bufferCall.name])) = 2
C26_Witness ==
  /\ bufferCall.op = "createBuffer"
  /\ pc = "buffers"
  /\ bufferCall.memoryTypeBits = {0, 1}
  /\ bufferCall.memoryTypeIndex = 1

\* C27: copyBuffer allocates one command buffer, records one copy from the
\* source to the destination, submits it, returns only when the queue is
\* idle, and frees the command buffer after the wait, never while its
\* submission is pending.
CopyCmdBuffersLive == {h \in live : KindOf(h) = "copyCmdBuffer"}
C27_CopyBuffer ==
  /\ pc \in {"copy_record", "copy_submit", "copy_wait_idle", "copy_free"}
       => CopyCmdBuffersLive = {bufferCall.cmdBuffer}
  /\ pc \in {"copy_submit", "copy_wait_idle", "copy_free"}
       => bufferCall.commands =
            <<[src |-> buffers[bufferCall.src].Buffer,
               dst |-> buffers[bufferCall.dst].Buffer,
               regionCount |-> 1]>>
  /\ pc = "copy_wait_idle"
       => transferQueue \in {<<>>, <<[cmdBuffer |-> bufferCall.cmdBuffer,
                                      commands |-> bufferCall.commands]>>}
  /\ pc \in {"buffers", "copy_record", "copy_submit", "copy_free", "abort"}
       => transferQueue = <<>>
  /\ pc \in {"buffers", "abort"} => CopyCmdBuffersLive = {}
  /\ \A k \in 1..Len(transferQueue) : transferQueue[k].cmdBuffer \in live
  /\ destroyedInUse = {}
C27_Witness ==
  /\ pc = "buffers"
  /\ bufferCall.op = "copyBuffer"
  /\ bufferCall.cmdBuffer \in created \ live
  /\ Len(bufferCall.commands) = 1

\* C28: destroyBuffer releases the buffer and its memory and leaves both
\* fields of the struct null; a destroyBuffer that follows on the same
\* struct releases nothing and destroys no handle that is not live.
DestroyLeavesNull ==
  bufferCall.op = "destroyBuffer" =>
    /\ buffers[bufferCall.name] = NullBuffer
    /\ bufferCall.released \cap live = {}
    /\ Cardinality(bufferCall.released) \in {0, 2}
SecondDestroyIsNoOp ==
  (/\ bufferCall.op = "destroyBuffer"
   /\ bufferCall'.op = "destroyBuffer"
   /\ bufferCall'.name = bufferCall.name)
    => /\ bufferCall'.released = {}
       /\ live' = live
       /\ buffers' = buffers
C28_DestroyBuffer ==
  [](DestroyLeavesNull /\ badDestroy = {}) /\ [][SecondDestroyIsNoOp]_vars
C28_Witness ==
  /\ bufferCall.op = "destroyBuffer"
  /\ bufferCall.released = {}
  /\ \E h \in created \ live : KindOf(h) = bufferCall.name

\* -------------------------------------------------------- frame resources
\* C29: when main() reaches the frame loop there are exactly
\* numSwapChainImages command buffers, uniform buffers, descriptor sets,
\* image-available semaphores, render-finished semaphores and fences, all
\* of them distinct live objects, and every fence is signaled.
PerFrameVectors ==
  {frameRes.graphicsCmdBuffers, frameRes.uniformBuffers,
   frameRes.descriptorSets, frameRes.imageAvailableSemaphores,
   frameRes.renderFinishedSemaphores, frameRes.imageAvailableFences}
C29_FrameResources ==
  pc = "loop" =>
    /\ numSwapChainImages = swapChainCreateInfo.minImageCount
    /\ Cardinality(PerFrameVectors) = 6
    /\ \A v \in PerFrameVectors :
         /\ Len(v) = numSwapChainImages
         /\ Cardinality(SeqToSet(v)) = numSwapChainImages
         /\ SeqToSet(v) \subseteq live
    /\ Len(fenceSignaled) = numSwapChainImages
    /\ \A i \in 1..numSwapChainImages : fenceSignaled[i]
C29_Witness ==
  /\ pc = "loop"
  /\ numSwapChainImages = 3
  /\ Len(frameRes.imageAvailableFences) = 3
  /\ fenceSignaled = <<TRUE, TRUE, TRUE>>

\* --------------------------------------------------------- rotating order
\* C30: with images handed out in rotating order from 0 for each new
\* swapchain, the acquired image is image currentFrame whenever the frame is
\* submitted or presented, so the submitted command buffer draws into the
\* framebuffer of the image that is presented, after recreations too.
C30_ImageIndexIsCurrentFrame ==
  pc \in {"submit", "present"} =>
    /\ imageIndex = currentFrame
    /\ cmdRecorded[Slot].framebuffer = swapChainFramebuffers[imageIndex + 1]
\* The same before the first recreation only.
C30_FirstSwapchain ==
  (pc \in {"submit", "present"} /\ gen = 1) =>
    /\ imageIndex = currentFrame
    /\ cmdRecorded[Slot].framebuffer = swapChainFramebuffers[imageIndex + 1]

\* ------------------------------------------------------ changing image count
\* C31: currentFrame is below the current image count, and every index the
\* loop (currentFrame) and re-recording (every i below the image count) use
\* into a per-frame vector is below the size the vector was created with,
\* also when a recreation changes the image count.
C31_IndicesInRange ==
  /\ currentFrame < numSwapChainImages
  /\ \A v \in PerFrameVectors : currentFrame < Len(v)
  /\ numSwapChainImages <= Len(frameRes.graphicsCmdBuffers)
  /\ numSwapChainImages <= Len(frameRes.descriptorSets)

\* C32: a command buffer on the graphics queue was recorded after the last
\* reset of the graphics command pool, with the render pass, the pipeline
\* and a framebuffer that are live, and it is the recording the program
\* holds for that buffer.
SubmittedRecorded ==
  \A k \in 1..Len(graphicsQueue) :
    LET d == graphicsQueue[k] IN
      /\ d.cmd.recorded
      /\ d.cmd = cmdRecorded[IndexOf(d.cmdBuffer)]
      /\ d.cmd.renderPass = renderPass
      /\ d.cmd.pipeline = graphicsPipeline
      /\ d.cmd.framebuffer \in SeqToSet(swapChainFramebuffers)
      /\ {d.cmdBuffer, d.cmd.renderPass, d.cmd.pipeline, d.cmd.framebuffer}
           \subseteq live
C32_SubmittedRecorded == SubmittedRecorded

\* ---------------------------------------------------------------- semaphores
\* C33: when vkAcquireNextImageKHR has been called with the image-available
\* semaphore of the slot, no submission that waits on that semaphore is
\* still on the graphics queue.  (The queue only shrinks between the call
\* and the fence wait, so a submission found at the fence wait was there
\* when the semaphore was handed to the call.)
C33_AcquireSemaphoreIdle ==
  pc = "wait_fence" =>
    \A k \in 1..Len(graphicsQueue) : graphicsQueue[k].wait # AcquireSemaphore

\* -------------------------------------------------------------- fence wait
\* A fence of a slot is signaled, or a submission that will signal it is on
\* the graphics queue, or the loop is between the reset of the fence and the
\* submit of the same iteration.
FenceSignaledOrPending ==
  \A s \in 1..Len(frameRes.imageAvailableFences) :
    \/ fenceSignaled[s]
    \/ PendingWithFence(frameRes.imageAvailableFences[s]) > 0
    \/ s = Slot /\ pc \in {"write_uniform", "submit"}
FenceWaitEnds == (pc = "wait_fence") ~> (pc # "wait_fence")
\* C34: the loop never waits for ever on the fence of a slot: the fence is
\* signaled or a pending submission will signal it, and the wait returns.
C34_FenceWaitReturns == []FenceSignaledOrPending /\ FenceWaitEnds

\* ------------------------------------------------------- recreation trigger
\* The stale results of the iteration: out-of-date from acquire, out-of-date
\* or suboptimal from present.
StaleResult ==
  \/ acquireNextImageResult = "VK_ERROR_OUT_OF_DATE_KHR"
  \/ PresentIsStale(queuePresentResult)
\* C35: an iteration runs a recreation exactly when its acquire returned
\* out-of-date or its present returned out-of-date or suboptimal, and runs
\* at most one; after any other result of acquire a recreation comes only
\* after the submit and the present of the frame.
C35_RecreationTrigger ==
  pc \notin ShutdownDestroyPcs \cup {"done", "abort", "undefined"} =>
    /\ LogCount("updateSwapChain") <= 1
    /\ pc \in UpdPcs => StaleResult
    /\ Logged("updateSwapChain") => StaleResult
    /\ (pc \in EndOfBodyPcs /\ StaleResult) => Logged("updateSwapChain")
    /\ (Logged("updateSwapChain")
          /\ acquireNextImageResult # "VK_ERROR_OUT_OF_DATE_KHR") =>
         /\ Logged("vkQueueSubmit")
         /\ LogPos("vkQueueSubmit") < LogPos("vkQueuePresentKHR")
         /\ LogPos("vkQueuePresentKHR") < LogPos("updateSwapChain")
\* An iteration whose acquire was suboptimal has ended: the frame was
\* submitted and presented, and the stale present then ran a recreation.
C35_Witness ==
  /\ pc = "loop"
  /\ acquireNextImageResult = "VK_SUBOPTIMAL_KHR"
  /\ PresentIsStale(queuePresentResult)
  /\ LogPos("vkQueuePresentKHR") < LogPos("updateSwapChain")

\* ------------------------------------------------------------ stale acquire
\* A step of the body of an iteration whose acquire returned out-of-date.
InStaleAcquireBody ==
  /\ acquireNextImageResult = "VK_ERROR_OUT_OF_DATE_KHR"
  /\ pc \notin AfterBodyPcs \cup {"abort", "undefined"}
StaleAcquireTouchesNothing ==
  acquireNextImageResult = "VK_ERROR_OUT_OF_DATE_KHR" =>
    /\ ~Logged("vkWaitForFences")
    /\ ~Logged("vkResetFences")
    /\ ~Logged("memcpy")
StaleAcquireKeepsFences ==
  InStaleAcquireBody =>
    /\ currentFrame' = currentFrame
    /\ fenceSignaled' = fenceSignaled
StaleAcquireKeepsSlot ==
  InStaleAcquireBody =>
    /\ currentFrame' = currentFrame
    /\ pc' # pc => fenceSignaled' = fenceSignaled
    /\ \A s \in 1..Len(fenceSignaled) : fenceSignaled[s] => fenceSignaled'[s]
C37_FormatsAgree ==
  pc \notin UpdPcs \cup ShutdownPcs \cup {"abort", "undefined"} =>
    /\ renderPass \in live
    /\ createdFormat.renderPass = swapChainCreateInfo.imageFormat
    /\ createdFormat.imageViews = swapChainCreateInfo.imageFormat
    /\ swapChainCreateInfo.imageFormat = chooseSurfaceFormat(supportFormats).format
\* A recreation has ended on a surface whose first format is not the
\* preferred one and which does not offer the preferred one.
C37_Witness ==
  /\ pc = "loop"
  /\ gen = 2
  /\ Logged("recordCommand")
  /\ supportFormats = <<UNORM>>
  /\ createdFormat.renderPass = "VK_FORMAT_B8G8R8A8_UNORM"

\* C38: the surface capabilities a recreation creates its swapchain with are
\* queried in that recreation (in the iteration that saw the stale result),
\* and after the wait on a minimized window when the recreation made one.
C38_CapabilitiesAfterWait ==
  Logged("vkCreateSwapchainKHR") =>
    /\ Logged("vkGetPhysicalDeviceSurfaceCapabilitiesKHR")
    /\ Logged("SDL_WaitEvent") =>
         LogPos("vkGetPhysicalDeviceSurfaceCapabilitiesKHR")
           > LogPos("SDL_WaitEvent")

\* ------------------------------------------------------- semaphore pairing
\* The calls of the iteration so far that are of the given name.
FrameOpsOf(call) == {k \in 1..Len(frameOps) : frameOps[k].call = call}
\* The submit of an iteration waits on what the acquire of the iteration
\* signals, and the present waits on the semaphore the submit signals.
SignalsPaired ==
  /\ \A k \in FrameOpsOf("vkQueueSubmit") :
       \E a \in FrameOpsOf("vkAcquireNextImageKHR") :
         a < k /\ frameOps[k].waits = frameOps[a].signals
  /\ \A k \in FrameOpsOf("vkQueuePresentKHR") :
       \E q \in FrameOpsOf("vkQueueSubmit") :
         /\ q < k
         /\ frameOps[k].waits =
              frameOps[q].signals \cap SeqToSet(frameRes.renderFinishedSemaphores)
\* The semaphore holds no signal and none is on its way to it.
ImageAvailableIdle(s) ==
  /\ ~semSignaled.imageAvailable[IndexOf(s)]
  /\ \A a \in acquirePending : a.semaphore # s
\* A step in which vkAcquireNextImageKHR takes an image, and so signals the
\* semaphore it was given, finds the semaphore idle.
AcquireSignalsIdle ==
  (pc = "acquire" /\ pc' = "wait_fence") => ImageAvailableIdle(AcquireSemaphore)
\* A step in which the graphics queue runs a submission, and so signals the
\* render-finished semaphore of the submission, finds that semaphore
\* unsignaled.
SubmitSignalsIdle ==
  (graphicsQueue # <<>> /\ graphicsQueue' = Tail(graphicsQueue)) =>
    ~semSignaled.renderFinished[IndexOf(Head(graphicsQueue).signal)]
\* C39: a semaphore is waited on once between two signals: the acquire, the
\* submit and the present of an iteration hand imageAvailable[s] and
\* renderFinished[s] to each other, and a signal finds the semaphore with
\* its previous signal consumed.
C39_SignalsConsumed ==
  []SignalsPaired /\ [][AcquireSignalsIdle /\ SubmitSignalsIdle]_vars

\* ------------------------------------------------------------ queue counts
\* C40: vkCreateDevice is asked, for each queue family, for no more queues
\* than the family exposes.
C40_QueuesWithinFamily ==
  \A k \in 1..Len(queueCreateInfos) :
    queueCreateInfos[k].queueCount
      <= queueFamilyProperties[queueCreateInfos[k].queueFamilyIndex + 1].queueCount

====
